---------------------------- MODULE Spec2Model ----------------------------
(***************************************************************************)
(* Narration timing and synchronisation engine of the Lectra sidecar:      *)
(*   - the text timing estimator        (services/timing.py)               *)
(*   - the audio duration prober        (services/sync_calculator.py)      *)
(*   - the timing reconciler            (services/sync_calculator.py)      *)
(*   - the streaming synthesis pipeline (api.py, generate_presentation)    *)
(*                                                                         *)
(* Times are integers in milliseconds.  Inside the reconciler a time is an *)
(* exact fraction: the integer x stands for x / scale_factor.den ms, so    *)
(* that multiplying by actual/estimated loses nothing; round(x, 3) is the  *)
(* only place where a fraction becomes whole milliseconds again.           *)
(***************************************************************************)
EXTENDS Integers, Sequences, FiniteSets, TLC

(***************************************************************************)
(* Bounds of the model                                                     *)
(***************************************************************************)
MaxSentences == 3      \* longest sentence list handed to the reconciler
MaxMapping   == 3      \* longest slide mapping handed to the reconciler
MaxRunOf     == 2      \* most sentence indices in one narrated mapping entry

(***************************************************************************)
(* Generic helpers                                                         *)
(***************************************************************************)
Range(s) == {s[i] : i \in 1..Len(s)}

RECURSIVE SeqsUpTo(_, _)
SeqsUpTo(S, n) ==
    IF n = 0 THEN {<<>>}
    ELSE LET shorter == SeqsUpTo(S, n - 1)
         IN  shorter \cup {Append(s, x) : s \in {t \in shorter : Len(t) = n - 1}, x \in S}

RECURSIVE Concat(_)
Concat(ss) == IF ss = <<>> THEN <<>> ELSE Head(ss) \o Concat(Tail(ss))

\* Python's sorted() on a set of integer keys
RECURSIVE sorted(_)
sorted(S) ==
    IF S = {} THEN <<>>
    ELSE LET m == CHOOSE x \in S : \A y \in S : x <= y
         IN  <<m>> \o sorted(S \ {m})

RECURSIVE gcd(_, _)
gcd(a, b) == IF b = 0 THEN a ELSE gcd(b, a % b)

\* Python's round(x, 3) for a time x = num/den ms: nearest millisecond,
\* ties to the even one
round3(num, den) ==
    LET q == num \div den
        r == num % den
    IN  IF 2 * r < den THEN q
        ELSE IF 2 * r > den THEN q + 1
        ELSE IF q % 2 = 0 THEN q ELSE q + 1

\* Python's round(x, 4) of the ratio num/den, in units of 1/10000
round4(num, den) == round3(num * 10000, den)

(***************************************************************************)
(* Text: a text is a sequence of one-character strings.  "w" stands for    *)
(* any letter, "|" for the Devanagari purna viram, "#" for the double      *)
(* danda.                                                                  *)
(***************************************************************************)
None == -1             \* Python's None where a number is optional

Whitespace == {" "}
SplitTerminators == {".", "!", "?"}      \* the class [.!?] of _split_sentences

\* str.count(ch)
count(text, ch) == Cardinality({i \in 1..Len(text) : text[i] = ch})

RECURSIVE lstrip(_)
lstrip(text) ==
    IF text # <<>> /\ Head(text) \in Whitespace THEN lstrip(Tail(text)) ELSE text

RECURSIVE rstrip(_)
rstrip(text) ==
    IF text # <<>> /\ text[Len(text)] \in Whitespace
    THEN rstrip(SubSeq(text, 1, Len(text) - 1)) ELSE text

strip(text) == rstrip(lstrip(text))

\* re.sub(r'\s+', ' ', text)
RECURSIVE collapse_spaces(_)
collapse_spaces(text) ==
    IF text = <<>> THEN <<>>
    ELSE IF Head(text) \in Whitespace
         THEN <<" ">> \o collapse_spaces(lstrip(text))
         ELSE <<Head(text)>> \o collapse_spaces(Tail(text))

\* " ".join(parts)
RECURSIVE join(_)
join(parts) ==
    IF parts = <<>> THEN <<>>
    ELSE IF Len(parts) = 1 THEN parts[1]
    ELSE parts[1] \o <<" ">> \o join(Tail(parts))

\* len(text.split())
RECURSIVE _count_words(_)
_count_words(text) ==
    LET t == lstrip(text)
    IN  IF t = <<>> THEN 0
        ELSE LET RECURSIVE word_end(_)
                 word_end(i) == IF i <= Len(t) /\ t[i] \notin Whitespace
                                THEN word_end(i + 1) ELSE i
                 e == word_end(1)
             IN  1 + _count_words(SubSeq(t, e, Len(t)))

\* _split_sentences: re.split(r'([.!?])\s+', text), each piece re-joined with
\* its terminator, blank pieces dropped, every sentence stripped.  cur is the
\* piece being collected.
RECURSIVE split_from(_, _)
split_from(text, cur) ==
    IF text = <<>>
    THEN IF strip(cur) # <<>> THEN <<strip(cur)>> ELSE <<>>
    ELSE IF Head(text) \in SplitTerminators /\ Len(text) >= 2 /\ text[2] \in Whitespace
         THEN <<strip(cur \o <<Head(text)>>)>> \o split_from(lstrip(Tail(text)), <<>>)
         ELSE split_from(Tail(text), cur \o <<Head(text)>>)

_split_sentences(text) == split_from(text, <<>>)

\* Nuance tags: each tag is one token of the text
VoiceTags    == {"[voice=x]"}
StyleTags    == {"[style=x]"}
RateTags     == {"[rate=+50%]", "[rate=-50%]", "[rate=-100%]", "[rate=-150%]"}
PitchTags    == {"[pitch=+2st]"}
PauseTags    == {"[pause=500ms]"}
EmphasisTags == {"[emphasis]", "[/emphasis]"}
Tags == VoiceTags \cup StyleTags \cup RateTags \cup PitchTags \cup PauseTags
        \cup EmphasisTags

NoRate == "None"                   \* a rate string that is None

\* group(1) of r'\[rate=([+-]?\d+%)\]'
RateString(tag) ==
    CASE tag = "[rate=+50%]"  -> "+50%"
      [] tag = "[rate=-50%]"  -> "-50%"
      [] tag = "[rate=-100%]" -> "-100%"
      [] tag = "[rate=-150%]" -> "-150%"

\* int(group(1)) of r'\[pause=(\d+)ms\]\s*$'
PauseMs(tag) == CASE tag = "[pause=500ms]" -> 500

\* _extract_tag with a pattern anchored at r'^\s*': the tag, and the text
\* without it, stripped
_extract_tag(kind, text) ==
    LET t == lstrip(text)
    IN  IF t # <<>> /\ Head(t) \in kind
        THEN [value |-> Head(t), text |-> strip(Tail(t))]
        ELSE [value |-> NoRate, text |-> text]

\* re.sub(r'\[/?[^\]]+\]', '', sentence), the emphasis pair included
remove_tags(text) == SelectSeq(text, LAMBDA ch : ch \notin Tags)

\* variant: a sentence that is empty once its tags are taken out is kept
segment_of_KeepsEmpty(sentence0) ==
    LET voice    == _extract_tag(VoiceTags, sentence0)
        style    == _extract_tag(StyleTags, voice.text)
        rate     == _extract_tag(RateTags, style.text)
        pitch    == _extract_tag(PitchTags, rate.text)
        r        == rstrip(pitch.text)
        paused   == r # <<>> /\ r[Len(r)] \in PauseTags
        unpaused == IF paused THEN SubSeq(r, 1, Len(r) - 1) ELSE pitch.text
        sentence == strip(collapse_spaces(remove_tags(unpaused)))
    IN  <<[text        |-> sentence,
           rate        |-> IF rate.value = NoRate THEN NoRate
                           ELSE RateString(rate.value),
           pause_after |-> IF paused THEN PauseMs(r[Len(r)]) ELSE None]>>

\* the body of the loop of parse_to_segments (lines 59-90); <<>> when the
\* sentence is skipped
segment_of(sentence0) ==
    LET voice    == _extract_tag(VoiceTags, sentence0)
        style    == _extract_tag(StyleTags, voice.text)
        rate     == _extract_tag(RateTags, style.text)
        pitch    == _extract_tag(PitchTags, rate.text)
        r        == rstrip(pitch.text)
        paused   == r # <<>> /\ r[Len(r)] \in PauseTags
        unpaused == IF paused THEN SubSeq(r, 1, Len(r) - 1) ELSE pitch.text
        sentence == strip(collapse_spaces(remove_tags(unpaused)))
    IN  IF sentence = <<>> THEN <<>>
        ELSE <<[text        |-> sentence,
                rate        |-> IF rate.value = NoRate THEN NoRate
                                ELSE RateString(rate.value),
                pause_after |-> IF paused THEN PauseMs(r[Len(r)]) ELSE None]>>

RECURSIVE segments_of(_)
segments_of(sentences) ==
    IF sentences = <<>> THEN <<>>
    ELSE segment_of(Head(sentences)) \o segments_of(Tail(sentences))

parse_to_segments(tagged) == segments_of(_split_sentences(tagged))

(***************************************************************************)
(* Text timing estimator: estimate_timings.  Inside the loop a time is in  *)
(* ticks of 1/TicksPerMs ms; the reported start, end and duration are      *)
(* rounded to milliseconds as round(x, 3) does.                            *)
(***************************************************************************)
TicksPerMs        == 1000
COMMA_PAUSE_MS    == 200
PERIOD_PAUSE_MS   == 450
ELLIPSIS_PAUSE_MS == 700
MIN_WPM           == 80
MAX_WPM           == 240

Max(a, b) == IF a >= b THEN a ELSE b
Min(a, b) == IF a <= b THEN a ELSE b

\* text.count('...'): occurrences left to right, not overlapping
RECURSIVE count_dots3(_)
count_dots3(text) ==
    IF Len(text) < 3 THEN 0
    ELSE IF text[1] = "." /\ text[2] = "." /\ text[3] = "."
         THEN 1 + count_dots3(SubSeq(text, 4, Len(text)))
         ELSE count_dots3(Tail(text))

\* _count_punctuation ("~" stands for the one-character ellipsis)
_count_punctuation(text) ==
    [comma       |-> count(text, ","),
     period      |-> count(text, ".") + count(text, "|") + count(text, "#"),
     question    |-> count(text, "?"),
     exclamation |-> count(text, "!"),
     ellipsis    |-> count(text, "~") + count_dots3(text)]

\* eff_wpm = max(80, min(240, base_wpm * (1 + rate_pct / 100))), in 1/100 wpm
eff_wpm100(base_wpm, rate_pct) ==
    Max(MIN_WPM * 100, Min(MAX_WPM * 100, base_wpm * (100 + rate_pct)))

\* duration of one segment in ticks (lines 87-110)
duration_ticks(segment, base_wpm, rate_pct) ==
    LET word_count == _count_words(segment.text)
        eff100     == eff_wpm100(base_wpm, rate_pct)
        \* (word_count / eff_wpm) * 60 s = word_count * 6000000 / eff100 ms:
        \* whole ms, then the rest in ticks
        spoken_ms  == word_count * 6000000
        spoken_ticks  == IF word_count > 0
                      THEN (spoken_ms \div eff100) * TicksPerMs
                           + round3((spoken_ms % eff100) * TicksPerMs, eff100)
                      ELSE 0
        punct      == _count_punctuation(segment.text)
        punct_ms   == punct.comma * COMMA_PAUSE_MS
                      + (punct.period + punct.question + punct.exclamation) * PERIOD_PAUSE_MS
                      + punct.ellipsis * ELLIPSIS_PAUSE_MS
        tag_pause_ms == IF segment.pause_after = None THEN 0 ELSE segment.pause_after
    IN  spoken_ticks + (punct_ms + tag_pause_ms) * TicksPerMs

\* _parse_rate_tag: re.match(r'([+-]?\d+)%', rate_str), 0.0 without a match
\* or for None
_parse_rate_tag(rate_str) ==
    CASE rate_str = "+50%"  -> 50
      [] rate_str = "-10%"  -> -10
      [] rate_str = "-50%"  -> -50
      [] rate_str = "-100%" -> -100
      [] rate_str = "-150%" -> -150
      [] OTHER              -> 0

\* _parse_rate_tag(segment.get('rate') or fallback_rate), line 90
rate_of(segment, fallback_rate) ==
    _parse_rate_tag(IF segment.rate # NoRate THEN segment.rate ELSE fallback_rate)

\* _get_base_wpm
_get_base_wpm(lang, voice) ==
    CASE voice = "en-US-AriaNeural"   -> 170
      [] voice = "en-US-GuyNeural"    -> 160
      [] voice = "hi-IN-SwaraNeural"  -> 150
      [] voice = "hi-IN-MadhurNeural" -> 145
      [] OTHER -> CASE lang = "en" -> 165
                    [] lang = "hi" -> 150
                    [] OTHER       -> 165

\* round(eff_wpm, 1), in 1/10 wpm
round1(eff100) == round3(eff100, 10)

\* the loop of lines 83-127 from segment i on; acc carries sentence_timings
\* and the running current_time (ticks)
RECURSIVE timings_loop(_, _, _, _, _)
timings_loop(acc, segments, i, base_wpm, fallback_rate) ==
    IF i > Len(segments) THEN acc
    ELSE LET segment      == segments[i]
             rate_pct     == rate_of(segment, fallback_rate)
             duration_sec == duration_ticks(segment, base_wpm, rate_pct)
             start_time   == acc.current_time
             end_time     == start_time + duration_sec
         IN  timings_loop(
                 [sentence_timings |-> Append(acc.sentence_timings,
                      [index    |-> i - 1,
                       text     |-> segment.text,
                       start    |-> round3(start_time, TicksPerMs),
                       end      |-> round3(end_time, TicksPerMs),
                       duration |-> round3(duration_sec, TicksPerMs),
                       words    |-> _count_words(segment.text),
                       rate_pct |-> rate_pct,
                       eff_wpm  |-> round1(eff_wpm100(base_wpm, rate_pct))]),
                  current_time |-> end_time],
                 segments, i + 1, base_wpm, fallback_rate)

estimate_timings(tagged_text, lang, default_voice, fallback_rate) ==
    LET base_wpm == _get_base_wpm(lang, default_voice)
        segments == parse_to_segments(tagged_text)
        done == timings_loop([sentence_timings |-> <<>>, current_time |-> 0],
                             segments, 1, base_wpm, fallback_rate)
        \* word_count / eff_wpm with eff_wpm = 0 (line 96)
        zero_division == \E i \in 1..Len(segments) :
                            /\ _count_words(segments[i].text) > 0
                            /\ eff_wpm100(base_wpm, rate_of(segments[i], fallback_rate)) = 0
    IN  IF zero_division THEN [outcome |-> "raised", error |-> "ZeroDivisionError"]
        ELSE [outcome            |-> "returned",
              total_duration_sec |-> round3(done.current_time, TicksPerMs),
              sentence_count     |-> Len(done.sentence_timings),
              base_wpm           |-> base_wpm,
              sentences          |-> done.sentence_timings]

(***************************************************************************)
(* Timing reconciler: calculate_slide_timings_from_audio                   *)
(***************************************************************************)
\* STEP 3: scale_factor = actual / estimated, 1.0 when estimated is 0; the
\* fraction is kept in lowest terms
ScaleFactor(actual_duration, estimated_duration) ==
    IF estimated_duration = 0
    THEN [num |-> 1, den |-> 1]
    ELSE LET g == gcd(actual_duration, estimated_duration)
         IN  [num |-> actual_duration \div g, den |-> estimated_duration \div g]

\* STEP 4: one scaled sentence; start, end, duration are over scale_factor.den
\* variant: scales start and end but leaves the duration as estimated
ScaleSentence_DurationUnscaled(sent, scale_factor) ==
    [index          |-> sent.index,
     start          |-> sent.start * scale_factor.num,
     end            |-> sent.end * scale_factor.num,
     duration       |-> sent.duration * scale_factor.den,
     original_start |-> sent.start,
     original_end   |-> sent.end]

ScaleSentence(sent, scale_factor) ==
    [index          |-> sent.index,
     start          |-> sent.start * scale_factor.num,
     end            |-> sent.end * scale_factor.num,
     duration       |-> sent.duration * scale_factor.num,
     original_start |-> sent.start,
     original_end   |-> sent.end]

ScaledSentences(sentence_timings, scale_factor) ==
    [i \in 1..Len(sentence_timings) |-> ScaleSentence(sentence_timings[i], scale_factor)]

\* The record appended for a slide with a fixed duration (lines 281-300)
FixedSlideTiming(slide_info, current_time, den) ==
    [slide_number     |-> slide_info.slide_number,
     start            |-> round3(current_time, den),
     end              |-> round3(current_time + slide_info.fixed_duration * den, den),
     duration         |-> slide_info.fixed_duration,
     sentence_count   |-> 0,
     sentence_indices |-> <<>>,
     is_title         |-> slide_info.is_title]

\* The record appended for a narrated slide (lines 340-347); it has no
\* is_title key
NarratedSlideTiming(slide_info, start_time, end_time, den) ==
    [slide_number     |-> slide_info.slide_number,
     start            |-> round3(start_time, den),
     end              |-> round3(end_time, den),
     duration         |-> round3(end_time - start_time, den),
     sentence_count   |-> Len(slide_info.sentence_indices),
     sentence_indices |-> slide_info.sentence_indices]

\* One iteration of the STEP 5 loop over slide_mapping.  acc carries the
\* loop's two accumulators: current_time (over den) and slide_timings.
MapSlide(acc, slide_info, scaled_sentences, den) ==
    LET sentence_indices == slide_info.sentence_indices
        fixed_duration   == slide_info.fixed_duration
    IN
    IF sentence_indices = <<>> \/ fixed_duration # None
    THEN IF fixed_duration # None
         THEN [current_time  |-> acc.current_time + fixed_duration * den,
               slide_timings |-> Append(acc.slide_timings,
                                    FixedSlideTiming(slide_info, acc.current_time, den))]
         ELSE acc                       \* no sentences, no fixed duration: skipped
    ELSE LET first_idx == sentence_indices[1]
             last_idx  == sentence_indices[Len(sentence_indices)]
         IN
         IF first_idx >= Len(scaled_sentences) \/ last_idx >= Len(scaled_sentences)
         THEN acc                       \* invalid indices: logged and skipped
         ELSE LET native_start == scaled_sentences[first_idx + 1].start
                  native_end   == scaled_sentences[last_idx + 1].end
              IN
              IF acc.slide_timings # <<>> /\ acc.current_time > 0
              THEN \* shifted by current_time, which is left as it was
                   [current_time  |-> acc.current_time,
                    slide_timings |-> Append(acc.slide_timings,
                        NarratedSlideTiming(slide_info,
                                            native_start + acc.current_time,
                                            native_end + acc.current_time, den))]
              ELSE \* sentence-native timing; current_time follows the slide's end
                   [current_time  |-> native_end,
                    slide_timings |-> Append(acc.slide_timings,
                        NarratedSlideTiming(slide_info, native_start, native_end, den))]

RECURSIVE MapSlides(_, _, _, _)
MapSlides(acc, slide_mapping, scaled_sentences, den) ==
    IF slide_mapping = <<>> THEN acc
    ELSE MapSlides(MapSlide(acc, Head(slide_mapping), scaled_sentences, den),
                   Tail(slide_mapping), scaled_sentences, den)

\* VALIDATION (lines 352-365): the two warnings of the coverage check,
\* coverage = last_slide_end / actual_duration * 100 (for an actual_duration
\* other than 0)
CoverageWarning(slide_timings, actual_duration) ==
    IF slide_timings = <<>> THEN "none"
    ELSE LET last_slide_end == slide_timings[Len(slide_timings)].end
         IN  IF last_slide_end * 100 < 95 * actual_duration THEN "low"
             ELSE IF last_slide_end * 100 > 105 * actual_duration THEN "over"
             ELSE "none"

\* The whole function, given the probed duration.  An empty sentence list
\* raises ValueError (line 237); the coverage of a table against a probed
\* duration of 0 raises ZeroDivisionError (line 355).
calculate_slide_timings_from_audio(actual_duration, sentence_timings, slide_mapping) ==
    IF sentence_timings = <<>>
    THEN [status |-> "ValueError"]
    ELSE LET estimated_duration == sentence_timings[Len(sentence_timings)].end
             scale_factor       == ScaleFactor(actual_duration, estimated_duration)
             scaled_sentences   == ScaledSentences(sentence_timings, scale_factor)
             mapped == MapSlides([current_time |-> 0, slide_timings |-> <<>>],
                                 slide_mapping, scaled_sentences, scale_factor.den)
         IN  IF mapped.slide_timings # <<>> /\ actual_duration = 0
             THEN [status |-> "ZeroDivisionError"]     \* line 355
             ELSE
             [status             |-> "ok",
              actual_duration    |-> actual_duration,
              estimated_duration |-> estimated_duration,
              scale              |-> scale_factor,
              scale_factor       |-> round4(scale_factor.num, scale_factor.den),
              slide_count        |-> Len(mapped.slide_timings),
              sentence_count     |-> Len(scaled_sentences),
              slides             |-> mapped.slide_timings,
              sentences          |-> scaled_sentences,
              coverage_warning   |-> CoverageWarning(mapped.slide_timings, actual_duration)]

(***************************************************************************)
(* Slide mapping built by generate_presentation, STEP 6 (api.py 480-554)   *)
(***************************************************************************)
TITLE_FIXED_MS == 4000
EMPTY_FIXED_MS == 2000

\* the five characters counted on accumulated_text (lines 509-515); "|" is
\* the purna viram, "#" the double danda
CountedTerminators == {".", "?", "!", "|", "#"}

accumulated_sentences(accumulated_text) ==
    Cardinality({i \in 1..Len(accumulated_text) :
                    accumulated_text[i] \in CountedTerminators})

\* "for _ in range(target_sentence_count)": the indices one content slide takes
TakeIndices(sentence_idx, target_sentence_count, N) ==
    LET k == Max(0, Min(target_sentence_count, N - sentence_idx))
    IN  [j \in 1..k |-> sentence_idx + j - 1]

\* one iteration of the loop over slides_data; acc carries slide_mapping,
\* accumulated_text and sentence_idx
\* variant: no special case for title slides (lines 491-502 left out)
MapOneSlide_TitleAsContent(acc, slide, slide_num, N) ==
    LET text    == acc.accumulated_text \o <<" ">> \o slide.speaker_notes
        target  == accumulated_sentences(text) - acc.sentence_idx
        indices == TakeIndices(acc.sentence_idx, target, N)
    IN  [slide_mapping |-> Append(acc.slide_mapping,
            IF indices # <<>>
            THEN [slide_number |-> slide_num, sentence_indices |-> indices,
                  is_title |-> slide.type = "title", fixed_duration |-> None]
            ELSE [slide_number |-> slide_num, sentence_indices |-> <<>>,
                  is_title |-> slide.type = "title", fixed_duration |-> EMPTY_FIXED_MS]),
         accumulated_text |-> text,
         sentence_idx     |-> acc.sentence_idx + Len(indices)]

MapOneSlide(acc, slide, slide_num, N) ==
    IF slide.type = "title"
    THEN [acc EXCEPT !.slide_mapping = Append(@,
             [slide_number |-> slide_num, sentence_indices |-> <<>>,
              is_title |-> TRUE, fixed_duration |-> TITLE_FIXED_MS])]
    ELSE LET text    == acc.accumulated_text \o <<" ">> \o slide.speaker_notes
             target  == accumulated_sentences(text) - acc.sentence_idx
             indices == TakeIndices(acc.sentence_idx, target, N)
         IN  [slide_mapping |-> Append(acc.slide_mapping,
                 IF indices # <<>>
                 THEN [slide_number |-> slide_num, sentence_indices |-> indices,
                       is_title |-> FALSE, fixed_duration |-> None]
                 ELSE [slide_number |-> slide_num, sentence_indices |-> <<>>,
                       is_title |-> FALSE, fixed_duration |-> EMPTY_FIXED_MS]),
              accumulated_text |-> text,
              sentence_idx     |-> acc.sentence_idx + Len(indices)]

RECURSIVE MapAllSlides(_, _, _, _)
MapAllSlides(acc, slides_data, slide_idx, N) ==
    IF slide_idx >= Len(slides_data) THEN acc
    ELSE MapAllSlides(MapOneSlide(acc, slides_data[slide_idx + 1], slide_idx + 1, N),
                      slides_data, slide_idx + 1, N)

\* lines 546-554: the sentences left over go to the last entry that is not a
\* title; with no such entry they go nowhere
AddRemaining(slide_mapping, sentence_idx, N) ==
    LET content == {i \in 1..Len(slide_mapping) : ~slide_mapping[i].is_title}
    IN  IF sentence_idx < N /\ content # {}
        THEN LET last == CHOOSE i \in content : \A j \in content : j <= i
                 remaining == [j \in 1..(N - sentence_idx) |-> sentence_idx + j - 1]
             IN  [slide_mapping EXCEPT ![last].sentence_indices = @ \o remaining]
        ELSE slide_mapping

BuildSlideMapping(slides_data, N) ==
    LET walked == MapAllSlides([slide_mapping |-> <<>>, accumulated_text |-> <<>>,
                                sentence_idx |-> 0], slides_data, 0, N)
    IN  AddRemaining(walked.slide_mapping, walked.sentence_idx, N)

(***************************************************************************)
(* Audio duration prober: probe_media_duration and its two fallbacks       *)
(***************************************************************************)
\* "Duration: HH:MM:SS.cc" as ffmpeg prints a length of ms milliseconds
DurationLine(ms) ==
    [hours        |-> ms \div 3600000,
     minutes      |-> (ms \div 60000) % 60,
     seconds      |-> (ms \div 1000) % 60,
     centiseconds |-> (ms \div 10) % 100]

\* line 162: int(hours)*3600 + int(minutes)*60 + int(seconds) + int(cs)/100
ParseDurationLine(m) ==
    (m.hours * 3600 + m.minutes * 60 + m.seconds) * 1000 + m.centiseconds * 10

(***************************************************************************)
(* State                                                                   *)
(***************************************************************************)
VARIABLES
    \* one call of calculate_slide_timings_from_audio
    rc_pc,            \* "call" | "done"
    rc_actual,        \* what probe_media_duration returns for audio_path (ms)
    rc_sentences,     \* sentence_timings
    rc_mapping,       \* slide_mapping
    rc_result,        \* the returned dict
    \* one call of probe_media_duration
    pr_pc,            \* "start" | "ffprobe" | "ffmpeg" | "pydub" | "returned" | "raised"
    pr_env,           \* what the file system and the external tools will do
    pr_attempted,     \* strategies run so far, in order
    pr_duration,      \* the returned duration (ms), None before
    pr_error,         \* the exception that left the function, "none" before
    \* one request to generate_presentation
    pc,               \* where the handler is
    run_status,       \* "running", "ok", or the detail of the HTTP 500
    deck,             \* what the slide stream will yield, and what the
                      \* outside world holds for each slide
    stream_pos,       \* slides received so far
    slides_data,      \* list of slide dicts
    image_tasks,      \* slide_index -> image task
    audio_tasks,      \* slide_index -> audio task
    audio_paths,      \* slide_index -> audio file path
    slide_images,     \* slide_index -> list of images
    image_semaphore,  \* free permits of image_semaphore
    tts_semaphore,    \* free permits of tts_semaphore
    await_pos,        \* tasks awaited so far in the current wait loop
    audio_chunks,     \* the files of audio_chunks/: path -> content
    combined_audio,   \* the chunks appended so far, in order
    narration_parts,  \* the notes accumulated beside them
    slide_mapping,    \* the mapping handed to the reconciler
    slide_timings,    \* what the reconciler returned
    tts_done_order,   \* history: slide indices in the order their audio tasks ended
    \* one call of verify_video_sync
    vs_pc,            \* "call" | "returned" | "raised" | "responded"
    vs_expected,      \* expected_duration (ms)
    vs_tolerance,     \* tolerance (ms)
    vs_result,        \* the returned tuple
    vs_response,      \* what the handler does with it: warning, response
    \* one call of estimate_timings
    es_pc,            \* "call" | "returned" | "raised"
    es_args,          \* tagged_text, lang, default_voice, fallback_rate
    es_result,        \* the returned dict
    \* two tasks of one request and the file paths each of them writes
    fw_pc,            \* "call" | "done"
    fw_tasks,         \* the two tasks: kind and slide index
    fw_written,       \* for each of the two, the set of paths it writes
    \* one call of map_sentences_to_slides
    ms_pc,            \* "call" | "done"
    ms_slides,        \* slides
    ms_sentences,     \* len(sentence_timings)
    ms_result         \* the returned mapping

reconVars == <<rc_pc, rc_actual, rc_sentences, rc_mapping, rc_result>>
probeVars == <<pr_pc, pr_env, pr_attempted, pr_duration, pr_error>>
taskVars  == <<image_tasks, audio_tasks, image_semaphore, tts_semaphore,
               audio_chunks, tts_done_order>>
mergeVars == <<combined_audio, narration_parts, slide_mapping, slide_timings>>
verifyVars == <<vs_pc, vs_expected, vs_tolerance, vs_result, vs_response>>
estVars   == <<es_pc, es_args, es_result>>
fileVars  == <<fw_pc, fw_tasks, fw_written>>
mapVars   == <<ms_pc, ms_slides, ms_sentences, ms_result>>
pipeVars  == <<pc, run_status, deck, stream_pos, slides_data, audio_paths,
               slide_images, await_pos, taskVars, mergeVars>>

(***************************************************************************)
(* Reconciler inputs                                                       *)
(***************************************************************************)
SentenceDurations == {0, 1000, 2500}
ActualDurations   == {0, 3000, 5000}

\* sentence dicts as estimate_timings lays them out: contiguous from 0
RECURSIVE Contiguous(_, _, _)
Contiguous(durations, i, t) ==
    IF i > Len(durations) THEN <<>>
    ELSE <<[index |-> i - 1, start |-> t, end |-> t + durations[i],
            duration |-> durations[i]]>>
         \o Contiguous(durations, i + 1, t + durations[i])

SentenceLists == {Contiguous(d, 1, 0) : d \in SeqsUpTo(SentenceDurations, MaxSentences)}

\* the entries a slide mapping is made of: a title (fixed 4.0 s), a content
\* slide without narration (fixed 2.0 s), an entry with neither sentences nor
\* fixed duration, and a narrated entry with n consecutive indices
EntryShapes ==
    {[kind |-> "title", n |-> 0], [kind |-> "empty", n |-> 0], [kind |-> "bare", n |-> 0]}
    \cup {[kind |-> "narrated", n |-> k] : k \in 1..MaxRunOf}

RECURSIVE MappingOf(_, _, _)
MappingOf(shapes, slide_num, sentence_idx) ==
    IF shapes = <<>> THEN <<>>
    ELSE LET sh == Head(shapes)
             entry ==
               CASE sh.kind = "title" ->
                      [slide_number |-> slide_num, sentence_indices |-> <<>>,
                       is_title |-> TRUE, fixed_duration |-> TITLE_FIXED_MS]
                 [] sh.kind = "empty" ->
                      [slide_number |-> slide_num, sentence_indices |-> <<>>,
                       is_title |-> FALSE, fixed_duration |-> EMPTY_FIXED_MS]
                 [] sh.kind = "bare" ->
                      [slide_number |-> slide_num, sentence_indices |-> <<>>,
                       is_title |-> FALSE, fixed_duration |-> None]
                 [] OTHER ->
                      [slide_number |-> slide_num,
                       sentence_indices |-> [j \in 1..sh.n |-> sentence_idx + j - 1],
                       is_title |-> FALSE, fixed_duration |-> None]
         IN  <<entry>> \o MappingOf(Tail(shapes), slide_num + 1, sentence_idx + sh.n)

SlideMappings == {MappingOf(sh, 1, 0) : sh \in SeqsUpTo(EntryShapes, MaxMapping) \ {<<>>}}

(***************************************************************************)
(* Specification of the reconciler: every input, then the call             *)
(***************************************************************************)
ProbeIdle ==
    /\ pr_pc = "idle"
    /\ pr_env = <<>>
    /\ pr_attempted = <<>>
    /\ pr_duration = None
    /\ pr_error = "none"

ReconIdle ==
    /\ rc_pc = "idle"
    /\ rc_actual = None
    /\ rc_sentences = <<>>
    /\ rc_mapping = <<>>
    /\ rc_result = <<>>

VerifyIdle ==
    /\ vs_pc = "idle"
    /\ vs_expected = None
    /\ vs_tolerance = None
    /\ vs_result = <<>>
    /\ vs_response = <<>>

EstIdle ==
    /\ es_pc = "idle"
    /\ es_args = <<>>
    /\ es_result = <<>>

FilesIdle ==
    /\ fw_pc = "idle"
    /\ fw_tasks = <<>>
    /\ fw_written = <<>>

MapIdle ==
    /\ ms_pc = "idle"
    /\ ms_slides = <<>>
    /\ ms_sentences = None
    /\ ms_result = <<>>

PipeIdle ==
    /\ pc = "idle"
    /\ run_status = "idle"
    /\ deck = <<>>
    /\ stream_pos = 0
    /\ slides_data = <<>>
    /\ image_tasks = <<>>
    /\ audio_tasks = <<>>
    /\ audio_paths = <<>>
    /\ slide_images = <<>>
    /\ image_semaphore = 0
    /\ tts_semaphore = 0
    /\ await_pos = 0
    /\ audio_chunks = <<>>
    /\ combined_audio = <<>>
    /\ narration_parts = <<>>
    /\ slide_mapping = <<>>
    /\ slide_timings = <<>>
    /\ tts_done_order = <<>>

InitRecon ==
    /\ rc_pc = "call"
    /\ rc_actual \in ActualDurations
    /\ rc_sentences \in SentenceLists
    /\ rc_mapping \in SlideMappings
    /\ rc_result = <<>>
    /\ ProbeIdle
    /\ PipeIdle
    /\ VerifyIdle
    /\ EstIdle
    /\ FilesIdle
    /\ MapIdle

Reconcile ==
    /\ rc_pc = "call"
    /\ rc_result' = calculate_slide_timings_from_audio(rc_actual, rc_sentences, rc_mapping)
    /\ rc_pc' = "done"
    /\ UNCHANGED <<rc_actual, rc_sentences, rc_mapping, probeVars, pipeVars, verifyVars, estVars, fileVars, mapVars>>

NextRecon == Reconcile

(***************************************************************************)
(* Specification of the prober                                             *)
(***************************************************************************)
MediaLengths == {2500, 61234}

ProbeEnvs ==
    [file_exists    : BOOLEAN,
     ffmpeg_found   : BOOLEAN,       \* get_ffmpeg_path() is not None
     ffprobe_exists : BOOLEAN,       \* os.path.exists(ffprobe_path)
     ffprobe_run    : {"ok", "CalledProcessError", "ValueError",
                       "TimeoutExpired", "FileNotFoundError"},
     ffmpeg_run     : {"match", "no_match", "TimeoutExpired"},
     pydub_run      : {"ok", "Exception"},
     length         : MediaLengths]

InitProbe ==
    /\ pr_pc = "start"
    /\ pr_env \in ProbeEnvs
    /\ pr_attempted = <<>>
    /\ pr_duration = None
    /\ pr_error = "none"
    /\ ReconIdle
    /\ PipeIdle
    /\ VerifyIdle
    /\ EstIdle
    /\ FilesIdle
    /\ MapIdle

\* lines 69-91: missing file, then the availability checks
ProbeStart ==
    /\ pr_pc = "start"
    /\ IF ~pr_env.file_exists
       THEN pr_pc' = "raised" /\ pr_error' = "FileNotFoundError"
       ELSE /\ pr_error' = pr_error
            /\ pr_pc' = IF ~pr_env.ffmpeg_found \/ ~pr_env.ffprobe_exists
                        THEN "pydub" ELSE "ffprobe"
    /\ UNCHANGED <<pr_env, pr_attempted, pr_duration, reconVars, pipeVars, verifyVars, estVars, fileVars, mapVars>>

\* lines 102-125: the container-duration probe
ProbeFfprobe ==
    /\ pr_pc = "ffprobe"
    /\ pr_attempted' = Append(pr_attempted, "ffprobe")
    /\ CASE pr_env.ffprobe_run = "ok" ->
              pr_pc' = "returned" /\ pr_duration' = pr_env.length
         [] pr_env.ffprobe_run = "CalledProcessError" ->
              pr_pc' = "ffmpeg" /\ pr_duration' = pr_duration
         [] OTHER ->
              pr_pc' = "pydub" /\ pr_duration' = pr_duration
    /\ UNCHANGED <<pr_env, pr_error, reconVars, pipeVars, verifyVars, estVars, fileVars, mapVars>>

\* _probe_with_ffmpeg, lines 138-169
ProbeFfmpeg ==
    /\ pr_pc = "ffmpeg"
    /\ pr_attempted' = Append(pr_attempted, "ffmpeg")
    /\ IF pr_env.ffmpeg_run = "match"
       THEN /\ pr_pc' = "returned"
            /\ pr_duration' = ParseDurationLine(DurationLine(pr_env.length))
            /\ pr_error' = pr_error
       ELSE /\ pr_pc' = "raised"
            /\ pr_error' = "RuntimeError"
            /\ pr_duration' = pr_duration
    /\ UNCHANGED <<pr_env, reconVars, pipeVars, verifyVars, estVars, fileVars, mapVars>>

\* _probe_with_pydub, lines 182-193
ProbePydub ==
    /\ pr_pc = "pydub"
    /\ pr_attempted' = Append(pr_attempted, "pydub")
    /\ IF pr_env.pydub_run = "ok"
       THEN /\ pr_pc' = "returned"
            /\ pr_duration' = pr_env.length
            /\ pr_error' = pr_error
       ELSE /\ pr_pc' = "raised"
            /\ pr_error' = "RuntimeError"
            /\ pr_duration' = pr_duration
    /\ UNCHANGED <<pr_env, reconVars, pipeVars, verifyVars, estVars, fileVars, mapVars>>

NextProbe == ProbeStart \/ ProbeFfprobe \/ ProbeFfmpeg \/ ProbePydub

(***************************************************************************)
(* Sync verifier: verify_video_sync wraps one call of the prober           *)
(***************************************************************************)
ExpectedDurations == {2000, 3000, 3001, 61730}
Tolerances        == {0, 500}

Abs(x) == IF x < 0 THEN -x ELSE x

\* variant: no except clause, the prober's exception leaves the function
verify_video_sync_Propagates(probe_pc, actual_duration, expected_duration, tolerance) ==
    IF probe_pc = "returned"
    THEN LET diff      == Abs(actual_duration - expected_duration)
             is_synced == diff <= tolerance
         IN  [outcome |-> "returned", is_synced |-> is_synced,
              actual_duration |-> actual_duration,
              message |-> IF is_synced THEN "Perfect sync" ELSE "Sync drift"]
    ELSE [outcome |-> "raised", is_synced |-> FALSE, actual_duration |-> 0,
          message |-> ""]

\* variant: the boundary is excluded
verify_video_sync_Strict(probe_pc, actual_duration, expected_duration, tolerance) ==
    IF probe_pc = "returned"
    THEN LET diff      == Abs(actual_duration - expected_duration)
             is_synced == diff < tolerance
         IN  [outcome |-> "returned", is_synced |-> is_synced,
              actual_duration |-> actual_duration,
              message |-> IF is_synced THEN "Perfect sync" ELSE "Sync drift"]
    ELSE [outcome |-> "returned", is_synced |-> FALSE, actual_duration |-> 0,
          message |-> "Verification failed"]

\* lines 401-422, once probe_media_duration has returned or raised
verify_video_sync(probe_pc, actual_duration, expected_duration, tolerance) ==
    IF probe_pc = "returned"
    THEN LET diff      == Abs(actual_duration - expected_duration)
             is_synced == diff <= tolerance
         IN  [outcome |-> "returned", is_synced |-> is_synced,
              actual_duration |-> actual_duration,
              message |-> IF is_synced THEN "Perfect sync" ELSE "Sync drift"]
    ELSE [outcome |-> "returned", is_synced |-> FALSE, actual_duration |-> 0,
          message |-> "Verification failed"]

InitVerify ==
    /\ pr_pc = "start"
    /\ pr_env \in ProbeEnvs
    /\ pr_attempted = <<>>
    /\ pr_duration = None
    /\ pr_error = "none"
    /\ vs_pc = "call"
    /\ vs_expected \in ExpectedDurations
    /\ vs_tolerance \in Tolerances
    /\ vs_result = <<>>
    /\ vs_response = <<>>
    /\ ReconIdle
    /\ PipeIdle
    /\ EstIdle
    /\ FilesIdle
    /\ MapIdle

VerifyReturn ==
    /\ vs_pc = "call"
    /\ pr_pc \in {"returned", "raised"}
    /\ vs_result' = verify_video_sync(pr_pc, pr_duration, vs_expected, vs_tolerance)
    /\ vs_pc' = vs_result'.outcome
    /\ UNCHANGED <<vs_expected, vs_tolerance, vs_response, probeVars, reconVars,
                   pipeVars, estVars, fileVars, mapVars>>

\* api.py 680-713: STEP 7 prints a warning for a verdict of "not synced" and
\* the handler goes on to return its response
Respond ==
    /\ vs_pc = "returned"
    /\ vs_response' = [status |-> "ok", warning |-> ~vs_result.is_synced]
    /\ vs_pc' = "responded"
    /\ UNCHANGED <<vs_expected, vs_tolerance, vs_result, probeVars, reconVars,
                   pipeVars, estVars, fileVars, mapVars>>

NextVerify == NextProbe \/ VerifyReturn \/ Respond

(***************************************************************************)
(* Specification of the estimator: every input, then the call              *)
(***************************************************************************)
MaxPieces == 2

\* pieces of narration text; a text is up to MaxPieces of them joined by " "
Pieces ==
    {<<>>,
     <<" ">>,
     <<"w", ".">>,
     <<"w", " ", "w", ".">>,
     <<"w", " ", "w">>,
     <<"w", "?">>,
     <<"w", "!">>,
     <<"w", "|">>,
     <<"w", "#">>,
     <<"w", ",", " ", "w", ".">>,
     <<"w", ".", ".", ".">>,
     <<"w", "~">>,
     <<"w", ".", "w", ".">>,
     <<"[rate=+50%]", "w", ".">>,
     <<"[rate=-50%]", "w", ".">>,
     <<"[rate=-100%]", "w", ".">>,
     <<"[rate=-150%]", "w", " ", "w", ".">>,
     <<"[voice=x]", "[rate=+50%]", " ", "w", ".">>,
     <<"[pitch=+2st]", "w", ".">>,
     <<"w", " ", "[rate=+50%]", "w", ".">>,
     <<"[emphasis]", "w", "[/emphasis]", ".">>,
     <<"w", " ", "[pause=500ms]">>,
     <<"[pause=500ms]">>}

Texts == {join(ps) : ps \in SeqsUpTo(Pieces, MaxPieces)}

LangVoices == {<<"en", "en-US-GuyNeural">>, <<"en", "custom">>,
               <<"hi", "hi-IN-SwaraNeural">>}
FallbackRates == {NoRate, "-10%", "-100%", "fast"}

InitEst ==
    /\ es_pc = "call"
    /\ es_args \in {[tagged_text |-> t, lang |-> lv[1], default_voice |-> lv[2],
                     fallback_rate |-> f] :
                        t \in Texts, lv \in LangVoices, f \in FallbackRates}
    /\ es_result = <<>>
    /\ ReconIdle
    /\ ProbeIdle
    /\ PipeIdle
    /\ VerifyIdle
    /\ FilesIdle
    /\ MapIdle

Estimate ==
    /\ es_pc = "call"
    /\ es_result' = estimate_timings(es_args.tagged_text, es_args.lang,
                                     es_args.default_voice, es_args.fallback_rate)
    /\ es_pc' = es_result'.outcome
    /\ UNCHANGED <<es_args, reconVars, probeVars, pipeVars, verifyVars, fileVars, mapVars>>

NextEst == Estimate

(***************************************************************************)
(* The files the tasks of one request write                                *)
(***************************************************************************)
MaxSlideIndex == 111

DigitChars == <<"0", "1", "2", "3", "4", "5", "6", "7", "8", "9">>

\* str(n) for n >= 0, one character per digit
RECURSIVE Digits(_)
Digits(n) ==
    IF n < 10 THEN <<DigitChars[n + 1]>>
    ELSE Digits(n \div 10) \o <<DigitChars[(n % 10) + 1]>>

\* f"{n:03d}"
Pad3(n) ==
    LET d == Digits(n)
    IN  IF Len(d) >= 3 THEN d ELSE [i \in 1..(3 - Len(d)) |-> "0"] \o d

\* file names, one character per digit and one token per fixed piece
\* audio_dir / f"slide_{slide_idx:03d}.mp3" (api.py 370)
ChunkName(slide_idx) ==
    <<"audio_chunks/", "slide_">> \o Pad3(slide_idx) \o <<".mp3">>

\* variant: the candidates are named by their position only
CandidateName_NoSlide(slide_idx, img_idx, suffix) ==
    <<"images/", "candidate_">> \o Digits(img_idx) \o <<suffix>>

\* images_dir / f"slide_{slide_idx}_candidate_{img_idx}.jpg", and the same
\* with_suffix('.tmp') while it is downloaded
CandidateName(slide_idx, img_idx, suffix) ==
    <<"images/", "slide_">> \o Digits(slide_idx) \o <<"_candidate_">>
        \o Digits(img_idx) \o <<suffix>>

\* images_dir / f"slide_{slide_idx}_0.jpg"
FinalName(slide_idx) ==
    <<"images/", "slide_">> \o Digits(slide_idx) \o <<"_", "0", ".jpg">>

\* every path a task creates, replaces, renames or deletes
WrittenBy(task) ==
    IF task.kind = "tts"
    THEN {ChunkName(task.slide_idx)}
    ELSE {CandidateName(task.slide_idx, img_idx, suffix) :
              img_idx \in {0, 1}, suffix \in {".jpg", ".tmp"}}
         \cup {FinalName(task.slide_idx)}

\* the tasks a request can have: at most one of a kind per slide index
FileTasks == [kind : {"tts", "image"}, slide_idx : 0..MaxSlideIndex]

InitFiles ==
    /\ fw_pc = "call"
    /\ fw_tasks \in {<<a, b>> : a \in FileTasks,
                               b \in {t \in FileTasks :
                                         t.slide_idx \in {1, 10, 11, 100, 101, 110, 111}}}
    /\ fw_written = <<>>
    /\ ReconIdle
    /\ ProbeIdle
    /\ PipeIdle
    /\ VerifyIdle
    /\ EstIdle
    /\ MapIdle

WriteFiles ==
    /\ fw_pc = "call"
    /\ fw_written' = <<WrittenBy(fw_tasks[1]), WrittenBy(fw_tasks[2])>>
    /\ fw_pc' = "done"
    /\ UNCHANGED <<fw_tasks, reconVars, probeVars, pipeVars, verifyVars, estVars, mapVars>>

NextFiles == WriteFiles

(***************************************************************************)
(* The streaming pipeline: generate_presentation (api.py 269-725)          *)
(***************************************************************************)
max_concurrent_images == 5
max_concurrent_tts    == 3
PIPELINE_BASE_WPM     == 160      \* VOICE_WPM of the default English voice

\* the dict keys of a function, in insertion order: tasks are inserted as
\* the stream yields, by ascending slide_index
Keys(f) == sorted(DOMAIN f)

Put(f, k, v) == [x \in (DOMAIN f) \cup {k} |-> IF x = k THEN v ELSE f[x]]

\* audio_dir / f"slide_{slide_idx:03d}.mp3": one path per slide index
ChunkPath(slide_idx) == slide_idx

\* images_dir / f"slide_{slide_idx}_candidate_{img_idx}.jpg"
ImagesFound(slide_idx, n) == [img_idx \in 1..n |-> [slide |-> slide_idx, candidate |-> img_idx - 1]]

Ended(task) == task.state \in {"returned", "raised"}

\* Speaker notes the content generator may return
OneSentence  == <<"w", ".">>
TwoSentences == <<"w", ".", " ", "w", " ", "w", "?">>
NoTerminator == <<"w", " ", "w">>
Abbreviation == <<"w", ".", "w", ".", " ", "w", ".">>
PurnaViram   == <<"w", "|", " ", "w", "|">>

\* Slides as generate_slides_streaming yields them (slide_generator_async.py
\* 188-224), each with what the outside world holds for it: the length of
\* the audio the TTS service would synthesise, the images a search finds,
\* and whether the two services can fail on it
TitleSlide ==
    [slide |-> [type |-> "title", points |-> <<>>, speaker_notes |-> NoTerminator],
     audio_ms |-> 900, web |-> 0, tts_can_fail |-> TRUE, fetch_can_fail |-> TRUE]

ContentSlide(notes, has_points, ms, found) ==
    [slide |-> [type |-> "content",
                points |-> IF has_points THEN <<"point">> ELSE <<>>,
                speaker_notes |-> notes],
     audio_ms |-> ms, web |-> found, tts_can_fail |-> TRUE, fetch_can_fail |-> TRUE]

\* "Welcome to the presentation on <title>" when the title ends in "?"
TitleAsking == [TitleSlide EXCEPT !.slide.speaker_notes = <<"w", " ", "w", "?">>]

Reliable(s) == [s EXCEPT !.tts_can_fail = FALSE, !.fetch_can_fail = FALSE]

Plain      == ContentSlide(OneSentence, TRUE, 1000, 1)
Long       == ContentSlide(TwoSentences, TRUE, 2600, 0)
Silent     == ContentSlide(<<>>, TRUE, 0, 1)
Trailing   == ContentSlide(NoTerminator, FALSE, 800, 0)
Abbrev     == ContentSlide(Abbreviation, FALSE, 1900, 0)
Hindi      == ContentSlide(PurnaViram, TRUE, 2100, 1)
NotesOnly  == ContentSlide(OneSentence, FALSE, 1000, 0)

\* the generator numbers the slides it yields 0, 1, 2, ...
Numbered(slides) ==
    [i \in 1..Len(slides) |->
        [slides[i] EXCEPT !.slide = [type          |-> slides[i].slide.type,
                                     points        |-> slides[i].slide.points,
                                     speaker_notes |-> slides[i].slide.speaker_notes,
                                     slide_index   |-> i - 1]]]

SmallDecks ==
    {Numbered(d) : d \in {<<TitleSlide>>,
                          <<TitleSlide, Plain>>,
                          <<TitleSlide, Plain, Long>>,
                          <<Plain, Long>>,
                          <<TitleSlide, Plain, Silent>>,
                          <<Plain, Trailing>>,
                          <<TitleSlide, Abbrev, Plain>>,
                          <<Long, TitleSlide, Hindi>>,
                          <<TitleAsking, Plain>>}}

\* more slides than a semaphore has permits: six image tasks, four audio
\* tasks, and both at once against services that do not fail
LargeDecks ==
    {Numbered(d) : d \in {<<Silent, Silent, Silent, Silent, Silent, Silent>>,
                          <<NotesOnly, NotesOnly, NotesOnly, NotesOnly>>,
                          <<TitleSlide, NotesOnly, NotesOnly, NotesOnly>>,
                          <<Reliable(Plain), Reliable(Plain), Reliable(Plain),
                            Reliable(Plain), Reliable(Silent), Reliable(Silent)>>}}

\* audio_chunks/ is kept between the runs of a project: it may hold the chunk
\* an earlier run wrote for some slide index
ChunkDirs(d) ==
    {<<>>} \cup {Put(<<>>, ChunkPath(k), [origin |-> "earlier_run", slide |-> k,
                                         ms |-> 1500]) : k \in 0..(Len(d) - 1)}

\* the state in which the handler starts streaming deck d over chunk
\* directory dir
Starts(d, dir) ==
    /\ pc = "stream"
    /\ run_status = "running"
    /\ deck = d
    /\ audio_chunks = dir
    /\ stream_pos = 0
    /\ slides_data = <<>>
    /\ image_tasks = <<>>
    /\ audio_tasks = <<>>
    /\ audio_paths = <<>>
    /\ slide_images = <<>>
    /\ image_semaphore = max_concurrent_images
    /\ tts_semaphore = max_concurrent_tts
    /\ await_pos = 0
    /\ combined_audio = <<>>
    /\ narration_parts = <<>>
    /\ slide_mapping = <<>>
    /\ slide_timings = <<>>
    /\ tts_done_order = <<>>
    /\ ReconIdle
    /\ ProbeIdle
    /\ VerifyIdle
    /\ EstIdle
    /\ FilesIdle
    /\ MapIdle

Init == \E d \in SmallDecks : \E dir \in ChunkDirs(d) : Starts(d, dir)

InitLoad == \E d \in LargeDecks : Starts(d, <<>>)

\* variant: an image task for every content slide, with points or without
ReceiveSlide_ImageForEveryContent ==
    /\ pc = "stream"
    /\ stream_pos < Len(deck)
    /\ LET slide     == deck[stream_pos + 1].slide
           slide_idx == slide.slide_index
       IN  /\ slides_data' = Append(slides_data, slide)
           /\ image_tasks' = IF slide.type = "content"
                             THEN Put(image_tasks, slide_idx,
                                      [state |-> "spawned", result |-> <<>>])
                             ELSE image_tasks
           /\ IF slide.speaker_notes # <<>>
              THEN /\ audio_tasks' = Put(audio_tasks, slide_idx, [state |-> "spawned"])
                   /\ audio_paths' = Put(audio_paths, slide_idx, ChunkPath(slide_idx))
              ELSE UNCHANGED <<audio_tasks, audio_paths>>
    /\ stream_pos' = stream_pos + 1
    /\ UNCHANGED <<pc, run_status, deck, slide_images, await_pos, image_semaphore,
                   tts_semaphore, audio_chunks, tts_done_order, mergeVars,
                   reconVars, probeVars, verifyVars, estVars, fileVars, mapVars>>

\* lines 354-380: the next slide arrives; its tasks are created at once
ReceiveSlide ==
    /\ pc = "stream"
    /\ stream_pos < Len(deck)
    /\ LET slide     == deck[stream_pos + 1].slide
           slide_idx == slide.slide_index
       IN  /\ slides_data' = Append(slides_data, slide)
           /\ image_tasks' = IF slide.type = "content" /\ slide.points # <<>>
                             THEN Put(image_tasks, slide_idx,
                                      [state |-> "spawned", result |-> <<>>])
                             ELSE image_tasks
           /\ IF slide.speaker_notes # <<>>
              THEN /\ audio_tasks' = Put(audio_tasks, slide_idx, [state |-> "spawned"])
                   /\ audio_paths' = Put(audio_paths, slide_idx, ChunkPath(slide_idx))
              ELSE UNCHANGED <<audio_tasks, audio_paths>>
    /\ stream_pos' = stream_pos + 1
    /\ UNCHANGED <<pc, run_status, deck, slide_images, await_pos, image_semaphore,
                   tts_semaphore, audio_chunks, tts_done_order, mergeVars,
                   reconVars, probeVars, verifyVars, estVars, fileVars, mapVars>>

\* the stream is exhausted: on to the first wait loop (line 384)
StreamExhausted ==
    /\ pc = "stream"
    /\ stream_pos = Len(deck)
    /\ pc' = "await_images"
    /\ await_pos' = 0
    /\ UNCHANGED <<run_status, deck, stream_pos, slides_data, audio_paths,
                   slide_images, taskVars, mergeVars, reconVars, probeVars, verifyVars, estVars, fileVars, mapVars>>

\* fetch_images_with_limit enters "async with image_semaphore" (line 345)
\* variant: the image wrapper starts without taking a permit
ImageAcquire_NoPermit(k) ==
    /\ image_tasks[k].state = "spawned"
    /\ image_semaphore' = image_semaphore - 1
    /\ image_tasks' = [image_tasks EXCEPT ![k].state = "running"]
    /\ UNCHANGED <<pc, run_status, deck, stream_pos, slides_data, audio_paths,
                   slide_images, await_pos, audio_tasks, tts_semaphore,
                   audio_chunks, tts_done_order, mergeVars, reconVars, probeVars, verifyVars, estVars, fileVars, mapVars>>

ImageAcquire(k) ==
    /\ image_tasks[k].state = "spawned"
    /\ image_semaphore > 0
    /\ image_semaphore' = image_semaphore - 1
    /\ image_tasks' = [image_tasks EXCEPT ![k].state = "running"]
    /\ UNCHANGED <<pc, run_status, deck, stream_pos, slides_data, audio_paths,
                   slide_images, await_pos, audio_tasks, tts_semaphore,
                   audio_chunks, tts_done_order, mergeVars, reconVars, probeVars, verifyVars, estVars, fileVars, mapVars>>

\* variant: the image wrapper never gives its permit back
ImageEnd_PermitKept(k) ==
    /\ image_tasks[k].state = "running"
    /\ \/ image_tasks' = [image_tasks EXCEPT ![k] =
              [state |-> "returned", result |-> ImagesFound(k, deck[k + 1].web)]]
       \/ /\ deck[k + 1].fetch_can_fail
          /\ image_tasks' = [image_tasks EXCEPT ![k].state = "raised"]
    /\ image_semaphore' = image_semaphore
    /\ UNCHANGED <<pc, run_status, deck, stream_pos, slides_data, audio_paths,
                   slide_images, await_pos, audio_tasks, tts_semaphore,
                   audio_chunks, tts_done_order, mergeVars, reconVars, probeVars, verifyVars, estVars, fileVars, mapVars>>

\* fetch_images_for_slide_standalone returns its list or raises; leaving the
\* "async with" gives the permit back either way (lines 345-346)
ImageEnd(k) ==
    /\ image_tasks[k].state = "running"
    /\ \/ image_tasks' = [image_tasks EXCEPT ![k] =
              [state |-> "returned", result |-> ImagesFound(k, deck[k + 1].web)]]
       \/ /\ deck[k + 1].fetch_can_fail
          /\ image_tasks' = [image_tasks EXCEPT ![k].state = "raised"]
    /\ image_semaphore' = image_semaphore + 1
    /\ UNCHANGED <<pc, run_status, deck, stream_pos, slides_data, audio_paths,
                   slide_images, await_pos, audio_tasks, tts_semaphore,
                   audio_chunks, tts_done_order, mergeVars, reconVars, probeVars, verifyVars, estVars, fileVars, mapVars>>

\* synthesize_with_limit enters "async with tts_semaphore" (line 350)
TtsAcquire(k) ==
    /\ audio_tasks[k].state = "spawned"
    /\ tts_semaphore > 0
    /\ tts_semaphore' = tts_semaphore - 1
    /\ audio_tasks' = [audio_tasks EXCEPT ![k].state = "running"]
    /\ UNCHANGED <<pc, run_status, deck, stream_pos, slides_data, audio_paths,
                   slide_images, await_pos, image_tasks, image_semaphore,
                   audio_chunks, tts_done_order, mergeVars, reconVars, probeVars, verifyVars, estVars, fileVars, mapVars>>

\* variant: the permit is given back only when the synthesis returned
TtsEnd_PermitLostOnRaise(k) ==
    /\ audio_tasks[k].state = "running"
    /\ \/ /\ strip(slides_data[k + 1].speaker_notes) # <<>>
          /\ audio_tasks' = [audio_tasks EXCEPT ![k].state = "returned"]
          /\ audio_chunks' = Put(audio_chunks, ChunkPath(k),
                                 [origin |-> "this_run", slide |-> k,
                                  ms |-> deck[k + 1].audio_ms])
          /\ tts_semaphore' = tts_semaphore + 1
       \/ /\ deck[k + 1].tts_can_fail
          /\ audio_tasks' = [audio_tasks EXCEPT ![k].state = "raised"]
          /\ audio_chunks' = audio_chunks
          /\ tts_semaphore' = tts_semaphore
    /\ tts_done_order' = Append(tts_done_order, k)
    /\ UNCHANGED <<pc, run_status, deck, stream_pos, slides_data, audio_paths,
                   slide_images, await_pos, image_tasks, image_semaphore,
                   mergeVars, reconVars, probeVars, verifyVars, estVars, fileVars, mapVars>>

\* synthesize_slide_narration ends (tts_engine.py 196-208): blank text raises
\* before anything is written; otherwise the chunk is written and verified,
\* or the engine fails, leaving the path as it was or with an empty file
TtsEnd(k) ==
    /\ audio_tasks[k].state = "running"
    /\ \/ /\ strip(slides_data[k + 1].speaker_notes) # <<>>
          /\ audio_tasks' = [audio_tasks EXCEPT ![k].state = "returned"]
          /\ audio_chunks' = Put(audio_chunks, ChunkPath(k),
                                 [origin |-> "this_run", slide |-> k,
                                  ms |-> deck[k + 1].audio_ms])
       \/ /\ deck[k + 1].tts_can_fail
          /\ audio_tasks' = [audio_tasks EXCEPT ![k].state = "raised"]
          /\ audio_chunks' = audio_chunks
       \/ /\ deck[k + 1].tts_can_fail
          /\ strip(slides_data[k + 1].speaker_notes) # <<>>
          /\ audio_tasks' = [audio_tasks EXCEPT ![k].state = "raised"]
          /\ audio_chunks' = Put(audio_chunks, ChunkPath(k),
                                 [origin |-> "this_run", slide |-> k, ms |-> 0])
    /\ tts_semaphore' = tts_semaphore + 1
    /\ tts_done_order' = Append(tts_done_order, k)
    /\ UNCHANGED <<pc, run_status, deck, stream_pos, slides_data, audio_paths,
                   slide_images, await_pos, image_tasks, image_semaphore,
                   mergeVars, reconVars, probeVars, verifyVars, estVars, fileVars, mapVars>>

\* lines 384-391: "await task" of the next image task, once it has ended
\* variant: the except clause records nothing for the slide
AwaitImage_DropsFailed ==
    /\ pc = "await_images"
    /\ await_pos < Len(Keys(image_tasks))
    /\ LET slide_idx == Keys(image_tasks)[await_pos + 1]
           task      == image_tasks[slide_idx]
       IN  /\ Ended(task)
           /\ slide_images' = IF task.state = "returned"
                              THEN Put(slide_images, slide_idx, task.result)
                              ELSE slide_images
    /\ await_pos' = await_pos + 1
    /\ UNCHANGED <<pc, run_status, deck, stream_pos, slides_data, audio_paths,
                   taskVars, mergeVars, reconVars, probeVars, verifyVars, estVars, fileVars, mapVars>>

AwaitImage ==
    /\ pc = "await_images"
    /\ await_pos < Len(Keys(image_tasks))
    /\ LET slide_idx == Keys(image_tasks)[await_pos + 1]
           task      == image_tasks[slide_idx]
       IN  /\ Ended(task)
           /\ slide_images' = Put(slide_images, slide_idx,
                                  IF task.state = "returned" THEN task.result ELSE <<>>)
    /\ await_pos' = await_pos + 1
    /\ UNCHANGED <<pc, run_status, deck, stream_pos, slides_data, audio_paths,
                   taskVars, mergeVars, reconVars, probeVars, verifyVars, estVars, fileVars, mapVars>>

ImagesAwaited ==
    /\ pc = "await_images"
    /\ await_pos = Len(Keys(image_tasks))
    /\ pc' = "await_tts"
    /\ await_pos' = 0
    /\ UNCHANGED <<run_status, deck, stream_pos, slides_data, audio_paths,
                   slide_images, taskVars, mergeVars, reconVars, probeVars, verifyVars, estVars, fileVars, mapVars>>

\* lines 395-400: "await task" of the next audio task; an exception is printed
\* variant: the loop goes over the tasks without awaiting them
AwaitTts_NoWait ==
    /\ pc = "await_tts"
    /\ await_pos < Len(Keys(audio_tasks))
    /\ await_pos' = await_pos + 1
    /\ UNCHANGED <<pc, run_status, deck, stream_pos, slides_data, audio_paths,
                   slide_images, taskVars, mergeVars, reconVars, probeVars,
                   verifyVars, estVars, fileVars, mapVars>>

\* variant: no try/except around the await, a raised task reaches the
\* handler of lines 722-725
AwaitTts_Propagates ==
    /\ pc = "await_tts"
    /\ await_pos < Len(Keys(audio_tasks))
    /\ Ended(audio_tasks[Keys(audio_tasks)[await_pos + 1]])
    /\ await_pos' = await_pos + 1
    /\ IF audio_tasks[Keys(audio_tasks)[await_pos + 1]].state = "raised"
       THEN pc' = "failed" /\ run_status' = "Presentation generation failed"
       ELSE UNCHANGED <<pc, run_status>>
    /\ UNCHANGED <<deck, stream_pos, slides_data, audio_paths,
                   slide_images, taskVars, mergeVars, reconVars, probeVars, verifyVars, estVars, fileVars, mapVars>>

AwaitTts ==
    /\ pc = "await_tts"
    /\ await_pos < Len(Keys(audio_tasks))
    /\ Ended(audio_tasks[Keys(audio_tasks)[await_pos + 1]])
    /\ await_pos' = await_pos + 1
    /\ UNCHANGED <<pc, run_status, deck, stream_pos, slides_data, audio_paths,
                   slide_images, taskVars, mergeVars, reconVars, probeVars, verifyVars, estVars, fileVars, mapVars>>

TtsAwaited ==
    /\ pc = "await_tts"
    /\ await_pos = Len(Keys(audio_tasks))
    /\ pc' = "assemble"
    /\ UNCHANGED <<run_status, deck, stream_pos, slides_data, audio_paths,
                   slide_images, await_pos, taskVars, mergeVars, reconVars, probeVars, verifyVars, estVars, fileVars, mapVars>>

\* STEP 3 and STEP 4 (lines 403-428): script and image metadata are saved and
\* the PPTX is created, or its creation fails the request
Assemble ==
    /\ pc = "assemble"
    /\ \/ pc' = "merge" /\ run_status' = run_status
       \/ pc' = "failed" /\ run_status' = "PPTX creation failed"
    /\ UNCHANGED <<deck, stream_pos, slides_data, audio_paths, slide_images,
                   await_pos, taskVars, mergeVars, reconVars, probeVars, verifyVars, estVars, fileVars, mapVars>>

\* the chunk files AudioSegment.from_mp3 can load
Loadable(path) == path \in DOMAIN audio_chunks /\ audio_chunks[path].ms > 0

\* variant: the chunks are visited in the order their tasks ended
MergeOrder_AsCompleted == tts_done_order

\* the order in which STEP 5 visits the chunks: sorted(audio_paths.keys())
MergeOrder == sorted(DOMAIN audio_paths)

\* the loop of lines 436-449 from position i on; acc carries combined_audio
\* and narration_parts
RECURSIVE MergeChunks(_, _, _)
MergeChunks(acc, order, i) ==
    IF i > Len(order) THEN acc
    ELSE LET slide_idx == order[i]
             path      == audio_paths[slide_idx]
         IN  IF Loadable(path)
             THEN MergeChunks(
                      [combined_audio  |-> Append(acc.combined_audio, audio_chunks[path]),
                       narration_parts |-> Append(acc.narration_parts,
                                                  slides_data[slide_idx + 1].speaker_notes)],
                      order, i + 1)
             ELSE MergeChunks(acc, order, i + 1)

\* len(combined_audio), in ms
RECURSIVE AudioLength(_)
AudioLength(chunks) ==
    IF chunks = <<>> THEN 0 ELSE Head(chunks).ms + AudioLength(Tail(chunks))

\* STEP 5 (lines 431-466)
MergeAudio ==
    /\ pc = "merge"
    /\ LET merged == MergeChunks([combined_audio |-> <<>>, narration_parts |-> <<>>],
                                 MergeOrder, 1)
       IN  /\ combined_audio' = merged.combined_audio
           /\ narration_parts' = merged.narration_parts
           /\ IF AudioLength(merged.combined_audio) = 0
              THEN pc' = "failed" /\ run_status' = "No audio was generated"
              ELSE pc' = "timings" /\ run_status' = run_status
    /\ UNCHANGED <<deck, stream_pos, slides_data, audio_paths, slide_images,
                   await_pos, taskVars, slide_mapping, slide_timings,
                   reconVars, probeVars, verifyVars, estVars, fileVars, mapVars>>

\* STEP 6 (lines 469-566): estimate from the narration text, build the slide
\* mapping, reconcile against the probed length of narration.mp3.  A failed
\* probe or an empty sentence list ends the request in the handler's last
\* except clause (line 724).
CalculateTimings ==
    /\ pc = "timings"
    /\ LET estimated_timings == estimate_timings(join(narration_parts), "en", "en-US-GuyNeural", NoRate)
           mapping == BuildSlideMapping(slides_data, Len(estimated_timings.sentences))
       IN  /\ slide_mapping' = mapping
           /\ \/ /\ slide_timings' = calculate_slide_timings_from_audio(
                                         AudioLength(combined_audio),
                                         estimated_timings.sentences, mapping)
                 /\ IF slide_timings'.status = "ok"
                    THEN pc' = "done" /\ run_status' = "ok"
                    ELSE pc' = "failed" /\ run_status' = "Presentation generation failed"
              \/ /\ slide_timings' = [status |-> "RuntimeError"]
                 /\ pc' = "failed"
                 /\ run_status' = "Presentation generation failed"
    /\ UNCHANGED <<deck, stream_pos, slides_data, audio_paths, slide_images,
                   await_pos, taskVars, combined_audio, narration_parts,
                   reconVars, probeVars, verifyVars, estVars, fileVars, mapVars>>

(***************************************************************************)
(* map_sentences_to_slides (sync_calculator.py 425-470)                    *)
(***************************************************************************)
MaxMapSlides    == 3
MaxMapSentences == 6

\* slide dicts: 'content' and 'speaker_notes', no 'slide_number'
MapSlideDicts ==
    [content       : {<<>>, OneSentence},
     speaker_notes : {<<>>, NoTerminator, OneSentence, TwoSentences}]

\* variant: the count of terminators, without the floor of 1
sentence_count_of_NoFloor(slide) ==
    LET full_text == slide.content \o <<" ">> \o slide.speaker_notes
    IN  count(full_text, ".") + count(full_text, "?") + count(full_text, "!")

\* lines 448-454: max(1, terminators of content + " " + speaker_notes)
sentence_count_of(slide) ==
    LET full_text == slide.content \o <<" ">> \o slide.speaker_notes
    IN  Max(1, count(full_text, ".") + count(full_text, "?") + count(full_text, "!"))

\* the loop of lines 444-465 from slide i on; acc carries mapping and
\* sentence_idx
RECURSIVE map_loop(_, _, _, _)
map_loop(acc, slides, i, N) ==
    IF i > Len(slides) THEN acc
    ELSE LET indices == TakeIndices(acc.sentence_idx, sentence_count_of(slides[i]), N)
         IN  map_loop([mapping      |-> Append(acc.mapping,
                                           [slide_number     |-> Len(acc.mapping) + 1,
                                            sentence_indices |-> indices]),
                       sentence_idx |-> acc.sentence_idx + Len(indices)],
                      slides, i + 1, N)

\* N is len(sentence_timings)
map_sentences_to_slides(slides, N) ==
    LET walked == map_loop([mapping |-> <<>>, sentence_idx |-> 0], slides, 1, N)
        mapping == walked.mapping
    IN  IF walked.sentence_idx < N /\ mapping # <<>>
        THEN [mapping EXCEPT ![Len(mapping)].sentence_indices =
                 @ \o [j \in 1..(N - walked.sentence_idx) |-> walked.sentence_idx + j - 1]]
        ELSE mapping

InitMap ==
    /\ ms_pc = "call"
    /\ ms_slides \in SeqsUpTo(MapSlideDicts, MaxMapSlides)
    /\ ms_sentences \in 0..MaxMapSentences
    /\ ms_result = <<>>
    /\ ReconIdle
    /\ ProbeIdle
    /\ PipeIdle
    /\ VerifyIdle
    /\ EstIdle
    /\ FilesIdle

MapSentences ==
    /\ ms_pc = "call"
    /\ ms_result' = map_sentences_to_slides(ms_slides, ms_sentences)
    /\ ms_pc' = "done"
    /\ UNCHANGED <<ms_slides, ms_sentences, reconVars, probeVars, pipeVars,
                   verifyVars, estVars, fileVars>>

NextMap == MapSentences

Next ==
    \/ ReceiveSlide
    \/ StreamExhausted
    \/ \E k \in DOMAIN image_tasks : ImageAcquire(k) \/ ImageEnd(k)
    \/ \E k \in DOMAIN audio_tasks : TtsAcquire(k) \/ TtsEnd(k)
    \/ AwaitImage
    \/ ImagesAwaited
    \/ AwaitTts
    \/ TtsAwaited
    \/ Assemble
    \/ MergeAudio
    \/ CalculateTimings

vars == <<reconVars, probeVars, pipeVars, verifyVars, estVars, fileVars, mapVars>>

Spec == Init /\ [][Next]_vars
SpecLoad == InitLoad /\ [][Next]_vars

\* the steps up to the merge of STEP 5.  The event loop runs whatever is
\* ready: the stream yields or ends, a task that can take a permit takes it,
\* a started call returns or raises, the handler goes on when the task it
\* awaits has ended
Scheduled ==
    \/ ReceiveSlide
    \/ StreamExhausted
    \/ \E k \in DOMAIN image_tasks : ImageAcquire(k) \/ ImageEnd(k)
    \/ \E k \in DOMAIN audio_tasks : TtsAcquire(k) \/ TtsEnd(k)
    \/ AwaitImage
    \/ ImagesAwaited
    \/ AwaitTts
    \/ TtsAwaited
    \/ Assemble
    \/ MergeAudio

\* the decks whose tasks outnumber the permits, against services that may
\* fail
LiveDecks ==
    {Numbered(d) : d \in {<<Silent, Silent, Silent, Silent, Silent, Silent>>,
                          <<NotesOnly, NotesOnly, NotesOnly, NotesOnly>>,
                          <<TitleSlide, NotesOnly, NotesOnly, NotesOnly>>}}

InitLive == \E d \in LiveDecks : Starts(d, <<>>)

SpecLive == InitLive /\ [][Next]_vars /\ WF_vars(Scheduled)

SpecRecon == InitRecon /\ [][NextRecon]_vars
SpecProbe == InitProbe /\ [][NextProbe]_vars
SpecVerify == InitVerify /\ [][NextVerify]_vars
SpecEst == InitEst /\ [][NextEst]_vars
SpecFiles == InitFiles /\ [][NextFiles]_vars
SpecMap == InitMap /\ [][NextMap]_vars

(***************************************************************************)
(* Properties of the reconciler                                            *)
(***************************************************************************)
ReconDone == rc_pc = "done" /\ rc_result.status = "ok"

IsFixedEntry(e)    == e.fixed_duration # None
IsNarratedEntry(e) == e.fixed_duration = None /\ e.sentence_indices # <<>>

MixesFixedAndNarrated(mapping) ==
    /\ \E i \in 1..Len(mapping) : IsFixedEntry(mapping[i])
    /\ \E i \in 1..Len(mapping) : IsNarratedEntry(mapping[i])

\* the mapping's sentence indices, in slide order, are exactly 0..N-1
CoversAllSentences(mapping, N) ==
    Concat([i \in 1..Len(mapping) |-> mapping[i].sentence_indices])
        = [j \in 1..N |-> j - 1]

\* C1: in the returned SlideTiming list every record starts no earlier than
\* the record before it ends, for every mapping that mixes fixed-duration and
\* narrated entries.
C1_StartsAfterPreviousEnd ==
    (ReconDone /\ MixesFixedAndNarrated(rc_mapping)) =>
        \A i \in 1..(Len(rc_result.slides) - 1) :
            rc_result.slides[i + 1].start >= rc_result.slides[i].end

\* C8: scale_factor is actual/estimated (1 when estimated is 0); every scaled
\* start, end and duration is the original times that factor, and the
\* original start and end are kept beside them.
C8_ScaleCorrect ==
    ReconDone =>
        LET est == rc_sentences[Len(rc_sentences)].end
            sf  == rc_result.scale
        IN  /\ sf.den > 0
            /\ est = 0 => sf.num = sf.den
            /\ est # 0 => sf.num * est = rc_actual * sf.den
            /\ est # 0 => 2 * (IF rc_result.scale_factor * est >= 10000 * rc_actual
                               THEN rc_result.scale_factor * est - 10000 * rc_actual
                               ELSE 10000 * rc_actual - rc_result.scale_factor * est) <= est
            /\ Len(rc_result.sentences) = Len(rc_sentences)
            /\ \A i \in 1..Len(rc_sentences) :
                 LET o == rc_sentences[i]
                     c == rc_result.sentences[i]
                 IN  /\ est # 0 => /\ c.start * est = o.start * rc_actual * sf.den
                                    /\ c.end * est = o.end * rc_actual * sf.den
                                    /\ c.duration * est = o.duration * rc_actual * sf.den
                     /\ est = 0 => /\ c.start = o.start * sf.den
                                    /\ c.end = o.end * sf.den
                                    /\ c.duration = o.duration * sf.den
                     /\ c.original_start = o.start
                     /\ c.original_end = o.end
                     /\ c.index = o.index

\* an estimate of 2.5 s against 3.0 s of audio: scale factor 1.2
C8_Witness ==
    /\ ReconDone
    /\ Len(rc_sentences) >= 2
    /\ rc_sentences[Len(rc_sentences)].end = 2500
    /\ rc_actual = 3000
    /\ rc_result.scale_factor = 12000
    /\ rc_result.sentences[1].end * 5 = rc_sentences[1].end * 6 * rc_result.scale.den

\* sentences as the estimator produces them: each takes time
PositiveDurations(sentence_timings) ==
    \A i \in 1..Len(sentence_timings) : sentence_timings[i].duration > 0

\* C10: when the mapping covers all sentences, the last SlideTiming ends
\* within 95%..105% of actual_duration, fixed-duration slides or not.
C10_CoverageWithinBand ==
    (ReconDone /\ CoversAllSentences(rc_mapping, Len(rc_sentences))
               /\ PositiveDurations(rc_sentences)
               /\ rc_result.slides # <<>>) =>
        LET last_end == rc_result.slides[Len(rc_result.slides)].end
        IN  /\ last_end * 100 >= 95 * rc_actual
            /\ last_end * 100 <= 105 * rc_actual

(***************************************************************************)
(* Properties of the prober                                                *)
(***************************************************************************)
Strategies == {"ffprobe", "ffmpeg", "pydub"}

\* a strategy whose tool the availability checks of lines 72-91 did not find
Unavailable(strategy) ==
    CASE strategy = "ffprobe" -> ~pr_env.ffmpeg_found \/ ~pr_env.ffprobe_exists
      [] strategy = "ffmpeg"  -> ~pr_env.ffmpeg_found
      [] OTHER                -> FALSE

\* C7: the measurement error is raised only when each of the three
\* strategies has been attempted (or its tool was not there to attempt) and
\* has failed; never while a later strategy is still untried.
C7_RaisesOnlyAfterAllThree ==
    (pr_pc = "raised" /\ pr_error = "RuntimeError") =>
        \A strategy \in Strategies :
            strategy \in Range(pr_attempted) \/ Unavailable(strategy)

(***************************************************************************)
(* Properties of the streaming pipeline                                    *)
(***************************************************************************)
RunningImages == {k \in DOMAIN image_tasks : image_tasks[k].state = "running"}
RunningTts    == {k \in DOMAIN audio_tasks : audio_tasks[k].state = "running"}
WaitingImages == {k \in DOMAIN image_tasks : image_tasks[k].state = "spawned"}
WaitingTts    == {k \in DOMAIN audio_tasks : audio_tasks[k].state = "spawned"}
RaisedImages  == {k \in DOMAIN image_tasks : image_tasks[k].state = "raised"}
RaisedTts     == {k \in DOMAIN audio_tasks : audio_tasks[k].state = "raised"}

\* all sentence indices of the emitted SlideTiming records, in order
EmittedIndices ==
    Concat([i \in 1..Len(slide_timings.slides) |-> slide_timings.slides[i].sentence_indices])

HasContentSlide == \E i \in 1..Len(slides_data) : slides_data[i].type # "title"

\* C2: after mapping, remainder redistribution and reconciliation, every
\* sentence index 0..N-1 is in the sentence_indices of exactly one emitted
\* SlideTiming.
C2_EverySentenceExactlyOnce ==
    (pc = "done" /\ HasContentSlide) =>
        \A n \in 0..(slide_timings.sentence_count - 1) :
            Cardinality({j \in 1..Len(EmittedIndices) : EmittedIndices[j] = n}) = 1

\* C3: the merged narration holds the loadable chunks in strictly ascending
\* slide-index order, whatever order the audio tasks ended in.
C3_MergedInSlideOrder ==
    (pc \in {"timings", "done"}) =>
        /\ \A i \in 1..Len(combined_audio) : \A j \in 1..Len(combined_audio) :
               i < j => ChunkPath(combined_audio[i].slide) < ChunkPath(combined_audio[j].slide)
        /\ {combined_audio[i].slide : i \in 1..Len(combined_audio)}
               = {k \in DOMAIN audio_paths : Loadable(audio_paths[k])}

\* the audio tasks of slides 0, 1, 2 ended in the order 2, 1, 0 and all three
\* chunks were merged
C3_Witness ==
    /\ pc = "done"
    /\ tts_done_order = <<2, 1, 0>>
    /\ Len(combined_audio) = 3
    /\ \A i \in 1..3 : combined_audio[i].slide = i - 1 /\ combined_audio[i].origin = "this_run"

\* C4: never more than 3 audio tasks and never more than 5 image tasks hold
\* a permit, however many were spawned; neither kind uses the other's permits.
C4_ConcurrencyCeilings ==
    /\ Cardinality(RunningTts) <= 3
    /\ Cardinality(RunningImages) <= 5
    /\ tts_semaphore >= 0
    /\ image_semaphore >= 0

\* both semaphores exhausted at once, with a task of each kind left waiting
C4_Witness ==
    /\ Cardinality(RunningTts) = 3
    /\ Cardinality(RunningImages) = 5
    /\ WaitingTts # {}
    /\ WaitingImages # {}

\* C5: a failed audio task never ends the request.  The request fails with
\* "No audio was generated" only when no chunk could be loaded for the merge;
\* with a loadable chunk it goes on through merge to the reconciliation.
C5_OnlyTotalAbsenceIsFatal ==
    /\ pc = "failed" =>
          \/ run_status = "PPTX creation failed"
          \/ /\ run_status = "No audio was generated"
             /\ \A k \in DOMAIN audio_paths : ~Loadable(audio_paths[k])
             /\ combined_audio = <<>>
          \/ /\ run_status = "Presentation generation failed"
             /\ combined_audio # <<>>
             /\ slide_timings # <<>>
    /\ pc \in {"merge", "timings", "done", "failed"} =>
          \A k \in DOMAIN audio_tasks : Ended(audio_tasks[k])

\* two of three audio tasks raised and the request still completed
C5_Witness ==
    /\ pc = "done"
    /\ run_status = "ok"
    /\ Cardinality(RaisedTts) = 2
    /\ Len(combined_audio) = 1
    /\ slide_timings.status = "ok"

\* C6: a raising image task leaves the empty list for its slide; every
\* other slide has exactly the list its own task returned; the wait loop
\* goes on to the end.
C6_ImageFailureIsContained ==
    /\ \A k \in DOMAIN slide_images :
          /\ k \in DOMAIN image_tasks
          /\ image_tasks[k].state = "raised" => slide_images[k] = <<>>
          /\ image_tasks[k].state = "returned" =>
                 slide_images[k] = ImagesFound(k, deck[k + 1].web)
    /\ pc \notin {"stream", "await_images"} => DOMAIN slide_images = DOMAIN image_tasks
    /\ pc = "failed" => run_status \in {"PPTX creation failed", "No audio was generated",
                                        "Presentation generation failed"}

\* one image task raised, another returned an image, the request completed
C6_Witness ==
    /\ pc = "done"
    /\ run_status = "ok"
    /\ \E k \in RaisedImages : slide_images[k] = <<>>
    /\ \E k \in DOMAIN slide_images : slide_images[k] # <<>>

\* the SlideTiming records emitted for slide number n
TimingsOf(n) ==
    {i \in 1..Len(slide_timings.slides) : slide_timings.slides[i].slide_number = n}

\* C9: the SlideTiming emitted for a mapping entry with is_title = true has
\* no sentence indices and sentence_count 0.
C9_TitleTakesNoSentences ==
    pc = "done" =>
        \A m \in 1..Len(slide_mapping) :
            slide_mapping[m].is_title =>
                /\ TimingsOf(slide_mapping[m].slide_number) # {}
                /\ \A i \in TimingsOf(slide_mapping[m].slide_number) :
                      /\ slide_timings.slides[i].sentence_indices = <<>>
                      /\ slide_timings.slides[i].sentence_count = 0

\* a title whose own narration ends in "?" and therefore counts as a
\* sentence: its sentence went to the content slide
C9_Witness ==
    /\ pc = "done"
    /\ slides_data[1].type = "title"
    /\ count(narration_parts[1], "?") = 1
    /\ slide_timings.sentence_count = 2
    /\ slide_timings.slides[1].sentence_indices = <<>>
    /\ slide_timings.slides[2].sentence_indices = <<0, 1>>

(***************************************************************************)
(* Properties of the sync verifier                                         *)
(***************************************************************************)
\* C11: verify_video_sync returns is_synced = true exactly when the measured
\* duration is within the tolerance of the expected one, boundary included,
\* with the measured duration and a message; it never raises.
C11_SyncedIffWithinTolerance ==
    /\ vs_pc # "raised"
    /\ (vs_pc = "returned" /\ pr_pc = "returned") =>
          /\ vs_result.is_synced
                 <=> (/\ pr_duration - vs_expected <= vs_tolerance
                      /\ vs_expected - pr_duration <= vs_tolerance)
          /\ vs_result.actual_duration = pr_duration
          /\ vs_result.message # ""
    /\ (vs_pc = "returned" /\ pr_pc = "raised") => ~vs_result.is_synced

\* the measured duration is short of the expected one by exactly the
\* tolerance, and the verdict is "synced"
C11_Witness ==
    /\ vs_pc = "returned"
    /\ pr_pc = "returned"
    /\ vs_tolerance = 500
    /\ vs_expected - pr_duration = 500
    /\ vs_result.is_synced

(***************************************************************************)
(* Properties of the estimator                                             *)
(***************************************************************************)
EstReturned == es_pc = "returned"

\* C12: in the returned sentence list, as reported in milliseconds, every
\* sentence ends at its start plus its duration and the next one starts at
\* that end; the first starts at 0 and total_duration_sec is the last end.
C12_ReportedTimelineAddsUp ==
    EstReturned =>
        LET sents == es_result.sentences
        IN  /\ \A i \in 1..Len(sents) :
                  /\ sents[i].end = sents[i].start + sents[i].duration
                  /\ i < Len(sents) => sents[i + 1].start = sents[i].end
            /\ sents # <<>> => /\ sents[1].start = 0
                               /\ es_result.total_duration_sec = sents[Len(sents)].end

(***************************************************************************)
(* Further properties of the reconciler                                    *)
(***************************************************************************)
\* an entry of the mapping names a sentence index outside 0..N-1
HasIndexOutOfRange(mapping, N) ==
    \E m \in 1..Len(mapping) :
        \E j \in 1..Len(mapping[m].sentence_indices) :
            mapping[m].sentence_indices[j] \notin 0..(N - 1)

\* C13: a mapping entry with a sentence index outside 0..N-1 makes the
\* reconciliation fail with an error to the caller; no timing table is
\* returned.
C13_BadIndexIsAnError ==
    (ReconDone /\ rc_sentences # <<>> /\ HasIndexOutOfRange(rc_mapping, Len(rc_sentences)))
        => rc_result.status # "ok"

(***************************************************************************)
(* Further properties of the streaming pipeline                            *)
(***************************************************************************)
AllImagesEnded == \A k \in DOMAIN image_tasks : Ended(image_tasks[k])
AllTtsEnded    == \A k \in DOMAIN audio_tasks : Ended(audio_tasks[k])

\* C14: the merge, the probe and the reconciliation start only after the
\* stream is exhausted and every spawned task has been awaited, the image
\* tasks first and the audio tasks after them.
C14_MergeAfterAllTasks ==
    /\ pc \in {"await_tts", "assemble", "merge", "timings", "done", "failed"} =>
          /\ stream_pos = Len(deck)
          /\ AllImagesEnded
          /\ DOMAIN slide_images = DOMAIN image_tasks
    /\ pc \in {"assemble", "merge", "timings", "done", "failed"} =>
          /\ AllTtsEnded
          /\ await_pos = Cardinality(DOMAIN audio_tasks)
    /\ (combined_audio # <<>> \/ slide_mapping # <<>> \/ slide_timings # <<>>) =>
          /\ pc \in {"timings", "done", "failed"}
          /\ AllImagesEnded
          /\ AllTtsEnded

\* three audio tasks and an image task were spawned, the audio tasks ended
\* out of order, and the reconciliation has run
C14_Witness ==
    /\ pc = "done"
    /\ Cardinality(DOMAIN audio_tasks) = 3
    /\ image_tasks # <<>>
    /\ tts_done_order = <<1, 2, 0>>
    /\ slide_timings.status = "ok"

\* C15: when the audio task of slide k failed in this request, the merged
\* narration holds no audio for slide k, whatever the audio_chunks directory
\* held before the request.
C15_FailedSlideIsSilent ==
    (pc \in {"timings", "done"}) =>
        \A k \in RaisedTts :
            \A i \in 1..Len(combined_audio) : combined_audio[i].slide # k

(***************************************************************************)
(* Further properties of the estimator                                     *)
(***************************************************************************)
\* the text holds nothing but whitespace and nuance tags
NothingSpoken(text) == \A i \in 1..Len(text) : text[i] \in Whitespace \cup Tags

\* C16: estimate_timings returns for every input text; for the empty text
\* (and for text of whitespace or tags only) it returns no sentences,
\* sentence_count 0 and total_duration_sec 0.
C16_EstimatorIsTotal ==
    /\ es_pc # "raised"
    /\ (EstReturned /\ NothingSpoken(es_args.tagged_text)) =>
          /\ es_result.sentences = <<>>
          /\ es_result.sentence_count = 0
          /\ es_result.total_duration_sec = 0
    /\ (EstReturned /\ ~NothingSpoken(es_args.tagged_text)) =>
          es_result.sentence_count >= 1

\* the input is a pause tag and nothing else
C16_Witness ==
    /\ EstReturned
    /\ es_args.tagged_text = <<"[pause=500ms]">>
    /\ es_result.sentence_count = 0
    /\ es_result.total_duration_sec = 0

\* the rate markers a sentence of the input carries, in order
RateMarkers(sentence) == SelectSeq(sentence, LAMBDA ch : ch \in RateTags)

Percent(rate_str) ==
    CASE rate_str = "+50%"  ->  50
      [] rate_str = "-10%"  -> -10
      [] rate_str = "-50%"  -> -50
      [] rate_str = "-100%" -> -100
      [] rate_str = "-150%" -> -150
      [] OTHER              ->  0

\* C17: each sentence's effective_wpm is base_wpm * (1 + rate_pct/100)
\* clamped to [80, 240], with rate_pct the sentence's own rate marker,
\* else the fallback rate, else 0.  (Stated for sentences with at most one
\* rate marker, so that "its own marker" names one value.)
C17_EffectiveWpmClamped ==
    EstReturned =>
        LET raw   == _split_sentences(es_args.tagged_text)
            sents == es_result.sentences
        IN  /\ \A i \in 1..Len(sents) :
                  /\ sents[i].eff_wpm >= 800
                  /\ sents[i].eff_wpm <= 2400
            /\ Len(raw) = Len(sents) =>
                  \A i \in 1..Len(sents) :
                      Len(RateMarkers(raw[i])) <= 1 =>
                      LET own  == RateMarkers(raw[i])
                          pct  == Percent(IF own # <<>> THEN RateString(own[1])
                                          ELSE es_args.fallback_rate)
                          wpm  == es_result.base_wpm * (100 + pct)
                      IN  /\ sents[i].rate_pct = pct
                          /\ wpm < 8000 => sents[i].eff_wpm = 800
                          /\ wpm > 24000 => sents[i].eff_wpm = 2400
                          /\ (wpm >= 8000 /\ wpm <= 24000) => sents[i].eff_wpm * 10 = wpm

\* the invocation of an external-process strategy ran past its 10 s timeout
TimedOut(strategy) ==
    CASE strategy = "ffprobe" -> pr_env.ffprobe_run = "TimeoutExpired"
      [] strategy = "ffmpeg"  -> pr_env.ffmpeg_run = "TimeoutExpired"
      [] OTHER                -> FALSE

\* C18: when the container-duration probe or the generic-decode invocation
\* exceeds its timeout, the prober goes on to attempt a further strategy
\* instead of failing the measurement: the timed-out strategy is never the
\* last one attempted.
C18_TimeoutMovesOn ==
    pr_pc \in {"returned", "raised"} =>
        \A i \in 1..Len(pr_attempted) :
            TimedOut(pr_attempted[i]) => i < Len(pr_attempted)

\* the sentence terminators of the two supported languages
Terminators == {".", "!", "?", "|", "#"}

\* the sentence boundaries of a text: a terminator followed by whitespace or
\* by the end of the text
Boundaries(text) ==
    {i \in 1..Len(text) : /\ text[i] \in Terminators
                          /\ (i = Len(text) \/ text[i + 1] \in Whitespace)}

\* C19: sentences are split at every terminator followed by whitespace, the
\* purna viram and the double danda included: a text that ends in a
\* terminator has as many Sentence records as it has sentence boundaries.
C19_DevanagariTerminatorsSplit ==
    LET text == rstrip(es_args.tagged_text)
    IN  (EstReturned /\ text # <<>> /\ text[Len(text)] \in Terminators) =>
            es_result.sentence_count = Cardinality(Boundaries(text))

\* the pause markers a sentence of the input carries, in order
PauseMarkers(sentence) == SelectSeq(sentence, LAMBDA ch : ch \in PauseTags)

\* the explicit pause attached to a sentence that has no pause marker, or one
\* marker as its last token
AttachedPauseMs(sentence) ==
    IF PauseMarkers(sentence) = <<>> THEN 0 ELSE PauseMs(sentence[Len(sentence)])

PauseAtEndOnly(sentence) ==
    \/ PauseMarkers(sentence) = <<>>
    \/ Len(PauseMarkers(sentence)) = 1 /\ sentence[Len(sentence)] \in PauseTags

\* the punctuation of a sentence text, a three-dot group being one ellipsis
\* and none of its dots a period
PunctuationPauseMs(text) ==
    LET ellipses == count(text, "~") + count_dots3(text)
        periods  == (count(text, ".") - 3 * count_dots3(text))
                    + count(text, "|") + count(text, "#")
    IN  count(text, ",") * COMMA_PAUSE_MS
        + (periods + count(text, "?") + count(text, "!")) * PERIOD_PAUSE_MS
        + ellipses * ELLIPSIS_PAUSE_MS

\* C20: for every sentence, ellipses included, duration = words / eff_wpm
\* x 60 s (0 without words) + (commas x 200 + (periods + question marks +
\* exclamation marks, Latin and Devanagari) x 450 + ellipses x 700 + the
\* explicit pause) ms, counted on the tag-stripped text; to the reported
\* millisecond.
C20_DurationFormula ==
    EstReturned =>
        LET raw   == _split_sentences(es_args.tagged_text)
            sents == es_result.sentences
        IN  Len(raw) = Len(sents) =>
                \A i \in 1..Len(sents) :
                    PauseAtEndOnly(raw[i]) =>
                    LET pauses == PunctuationPauseMs(sents[i].text)
                                  + AttachedPauseMs(raw[i])
                        \* (duration - pauses) * eff_wpm = words * 60000
                        lhs == (sents[i].duration - pauses) * sents[i].eff_wpm
                        rhs == sents[i].words * 600000
                    IN  /\ lhs - rhs <= sents[i].eff_wpm
                        /\ rhs - lhs <= sents[i].eff_wpm

(***************************************************************************)
(* The windows of the reconciled timeline                                  *)
(***************************************************************************)
\* the sum of the fixed durations of the fixed-duration entries before
\* entry m of the mapping (ms)
RECURSIVE FixedBefore(_, _)
FixedBefore(mapping, m) ==
    IF m <= 1 THEN 0
    ELSE FixedBefore(mapping, m - 1)
         + (IF mapping[m - 1].fixed_duration # None
            THEN mapping[m - 1].fixed_duration ELSE 0)

\* every entry of the mapping is emitted: none is bare, none names a
\* sentence that does not exist
EveryEntryEmitted(mapping, N) ==
    /\ ~HasIndexOutOfRange(mapping, N)
    /\ \A m \in 1..Len(mapping) :
           mapping[m].sentence_indices # <<>> \/ mapping[m].fixed_duration # None

\* C21: a narrated entry is emitted as [scaled_start(first index),
\* scaled_end(last index)) shifted by the sum of the fixed durations of the
\* fixed-duration entries before it (0 when there is none); a fixed-duration
\* entry is emitted as [t, t + fixed_duration), t the end of the window
\* emitted just before it (0 for the first entry).
C21_WindowsShiftedByFixedTime ==
    (ReconDone /\ rc_result.status = "ok"
               /\ EveryEntryEmitted(rc_mapping, Len(rc_sentences))) =>
        /\ Len(rc_result.slides) = Len(rc_mapping)
        /\ \A m \in 1..Len(rc_mapping) :
              LET entry == rc_mapping[m]
                  out   == rc_result.slides[m]
                  den   == rc_result.scale.den
              IN  IF entry.fixed_duration # None
                  THEN LET t == IF m = 1 THEN 0 ELSE rc_result.slides[m - 1].end
                       IN  /\ out.start = t
                           /\ out.end = t + entry.fixed_duration
                  ELSE LET first == entry.sentence_indices[1]
                           last  == entry.sentence_indices[Len(entry.sentence_indices)]
                           shift == FixedBefore(rc_mapping, m) * den
                       IN  /\ out.start = round3(rc_result.sentences[first + 1].start + shift, den)
                           /\ out.end = round3(rc_result.sentences[last + 1].end + shift, den)

(***************************************************************************)
(* Slides whose narration chunk is missing                                 *)
(***************************************************************************)
\* the slide indices whose chunk went into narration.mp3
MergedSlides == {combined_audio[i].slide : i \in 1..Len(combined_audio)}

\* C22: a content slide whose narration chunk is missing from the merge
\* contributes no narration to the reconciled timeline: its SlideTiming
\* carries no sentence indices, the sentences go to the slides whose chunks
\* were merged.
C22_MissingChunkTakesNoSentences ==
    pc = "done" =>
        \A i \in 1..Len(slide_timings.slides) :
            LET timing == slide_timings.slides[i]
            IN  (timing.slide_number - 1) \notin MergedSlides =>
                    timing.sentence_indices = <<>>

(***************************************************************************)
(* Permits                                                                 *)
(***************************************************************************)
\* C23: a permit is held exactly while its task is in its work section,
\* however the task ends: the free permits of each semaphore are its size
\* less the tasks now running, and with every task ended all 3 narration
\* permits and all 5 image permits are free.
C23_PermitsFollowRunningTasks ==
    /\ tts_semaphore = max_concurrent_tts - Cardinality(RunningTts)
    /\ image_semaphore = max_concurrent_images - Cardinality(RunningImages)
    /\ (stream_pos = Len(deck) /\ AllTtsEnded /\ AllImagesEnded) =>
           /\ tts_semaphore = max_concurrent_tts
           /\ image_semaphore = max_concurrent_images

\* four narration tasks: one has raised, and the task that waited for a
\* permit runs beside two others
C23_Witness ==
    /\ RaisedTts # {}
    /\ Cardinality(RunningTts) = 3
    /\ WaitingTts = {}
    /\ tts_semaphore = 0

(***************************************************************************)
(* Spawning                                                                *)
(***************************************************************************)
\* the indices of the slides received so far that satisfy wanted
Received(wanted(_)) ==
    {slides_data[i].slide_index : i \in {j \in 1..Len(slides_data) : wanted(slides_data[j])}}

WantsImages(slide)    == slide.type = "content" /\ slide.points # <<>>
WantsNarration(slide) == slide.speaker_notes # <<>>

\* C24: as soon as a slide is received it has an image task iff it is a
\* content slide with points, and a narration task iff it has speaker notes;
\* the task maps hold one task per slide index, and the tasks are there
\* whatever the state of the semaphores and of the rest of the stream.
C24_TasksSpawnedPerSlide ==
    /\ Len(slides_data) = stream_pos
    /\ DOMAIN image_tasks = Received(WantsImages)
    /\ DOMAIN audio_tasks = Received(WantsNarration)
    /\ DOMAIN audio_paths = DOMAIN audio_tasks

\* a title slide and three content slides without points were received:
\* four narration tasks exist, no image task, three tasks hold the permits
\* and the fourth exists without one
C24_Witness ==
    /\ pc = "stream"
    /\ slides_data # <<>> /\ slides_data[1].type = "title"
    /\ Cardinality(DOMAIN audio_tasks) = 4
    /\ tts_semaphore = 0
    /\ Cardinality(WaitingTts) = 1
    /\ image_tasks = <<>>

(***************************************************************************)
(* Termination                                                             *)
(***************************************************************************)
\* the request is past the merge of STEP 5, or has failed
ReachedOutcome == pc \in {"timings", "done", "failed"}

\* C25: with a finite stream and calls that return or raise, every request
\* reaches the merged-output stage or the run-level failure, and no task
\* waits for a permit forever, also with more tasks than permits: from some
\* point on the request is past the merge or failed and no task is waiting.
C25_RequestTerminates ==
    <>[](ReachedOutcome /\ WaitingTts = {} /\ WaitingImages = {})

\* four narration tasks over three permits have all ended, out of slide
\* order and one of them by raising, and the request is done
C25_Witness ==
    /\ pc = "done"
    /\ Cardinality(DOMAIN audio_tasks) > max_concurrent_tts
    /\ AllTtsEnded
    /\ RaisedTts # {}
    /\ tts_done_order # <<0, 1, 2, 3>>

StrategyOrder == <<"ffprobe", "ffmpeg", "pydub">>

Rank(strategy) == CHOOSE r \in 1..3 : StrategyOrder[r] = strategy

\* what running a strategy on this file gives
Succeeds(strategy) ==
    CASE strategy = "ffprobe" -> pr_env.ffprobe_run = "ok"
      [] strategy = "ffmpeg"  -> pr_env.ffmpeg_run = "match"
      [] OTHER                -> pr_env.pydub_run = "ok"

\* the duration a strategy reports (ms): ffmpeg prints hundredths of a second
ValueOf(strategy) ==
    IF strategy = "ffmpeg" THEN (pr_env.length \div 10) * 10 ELSE pr_env.length

\* C27: a strategy is attempted only if every earlier strategy of the order
\* ffprobe, ffmpeg, pydub was unavailable or was attempted and failed; after
\* a success nothing more is attempted and the returned duration is the
\* successful strategy's value.
C27_StrategiesInOrder ==
    /\ \A i \in 1..Len(pr_attempted) :
          \A earlier \in Strategies :
              Rank(earlier) < Rank(pr_attempted[i]) =>
                  \/ Unavailable(earlier)
                  \/ \E j \in 1..(i - 1) : pr_attempted[j] = earlier /\ ~Succeeds(earlier)
    /\ \A i \in 1..(Len(pr_attempted) - 1) : ~Succeeds(pr_attempted[i])
    /\ pr_pc = "returned" =>
          /\ pr_attempted # <<>>
          /\ Succeeds(pr_attempted[Len(pr_attempted)])
          /\ pr_duration = ValueOf(pr_attempted[Len(pr_attempted)])

(***************************************************************************)
(* The coverage check                                                      *)
(***************************************************************************)
\* the mapping has an entry for which STEP 5 emits a SlideTiming
EmitsSome(mapping, N) ==
    \E m \in 1..Len(mapping) :
        \/ mapping[m].fixed_duration # None
        \/ /\ mapping[m].sentence_indices # <<>>
           /\ \A j \in 1..Len(mapping[m].sentence_indices) :
                  mapping[m].sentence_indices[j] \in 0..(N - 1)

\* C28: whenever a SlideTiming is emitted the timing table is returned,
\* with a coverage warning exactly when last slide end / actual_duration x
\* 100 is below 95 or above 105; the coverage check never keeps the table
\* from being returned.
C28_CoverageOnlyWarns ==
    (rc_pc = "done" /\ rc_sentences # <<>>
                    /\ EmitsSome(rc_mapping, Len(rc_sentences))) =>
        /\ rc_result.status = "ok"
        /\ rc_result.slides # <<>>
        /\ LET last_end == rc_result.slides[Len(rc_result.slides)].end
           IN  (rc_result.coverage_warning # "none") <=>
                   \/ last_end * 100 < 95 * rc_actual
                   \/ last_end * 100 > 105 * rc_actual

(***************************************************************************)
(* A failed measurement in the sync verifier                               *)
(***************************************************************************)
\* C29: when the probe inside verify_video_sync fails, by a missing file or
\* by every strategy failing, no exception leaves the function: it returns
\* (False, 0.0, "Verification failed: ..."), and the handler, as for a
\* mismatch, warns and returns its normal response.
C29_FailedProbeIsAMismatch ==
    /\ (pr_pc = "raised" /\ vs_pc # "call") =>
          /\ vs_pc \in {"returned", "responded"}
          /\ vs_result = [outcome |-> "returned", is_synced |-> FALSE,
                          actual_duration |-> 0, message |-> "Verification failed"]
    /\ (pr_pc = "raised" /\ vs_pc = "responded") =>
          vs_response = [status |-> "ok", warning |-> TRUE]

\* every strategy that was tried failed, the last of them the in-process
\* decode, and the response is the normal one
C29_Witness ==
    /\ pr_pc = "raised"
    /\ pr_error = "RuntimeError"
    /\ pr_attempted # <<>> /\ pr_attempted[Len(pr_attempted)] = "pydub"
    /\ vs_pc = "responded"
    /\ vs_result.actual_duration = 0
    /\ vs_response.status = "ok"

(***************************************************************************)
(* map_sentences_to_slides                                                 *)
(***************************************************************************)
\* the sentences handed out before slide m of a mapping
RECURSIVE GivenBefore(_, _)
GivenBefore(mapping, m) ==
    IF m <= 1 THEN 0
    ELSE GivenBefore(mapping, m - 1) + Len(mapping[m - 1].sentence_indices)

\* C30: for a non-empty slide list and N sentences there is one mapping per
\* slide; the sentence_indices, concatenated in slide order, are 0, 1, ...,
\* N-1; a slide gets at least one sentence while sentences remain; and what
\* is left after the last slide is appended to it.
C30_MappingCoversAllSentences ==
    (ms_pc = "done" /\ ms_slides # <<>>) =>
        /\ Len(ms_result) = Len(ms_slides)
        /\ Concat([m \in 1..Len(ms_result) |-> ms_result[m].sentence_indices])
               = [i \in 1..ms_sentences |-> i - 1]
        /\ \A m \in 1..Len(ms_result) :
               GivenBefore(ms_result, m) < ms_sentences =>
                   ms_result[m].sentence_indices # <<>>

\* three slides, the middle one without a terminator, six sentences: the
\* middle slide gets one sentence and the last slide the three left over
C30_Witness ==
    /\ ms_pc = "done"
    /\ Len(ms_slides) = 3
    /\ ms_sentences = 6
    /\ ms_result[1].sentence_indices = <<0>>
    /\ ms_result[2].sentence_indices = <<1>>
    /\ ms_result[3].sentence_indices = <<2, 3, 4, 5>>

=============================================================================
